---- MODULE Spec2Model ----
(***************************************************************************)
(* A model of the Coerce actor runtime: the mailbox loop of an actor       *)
(* (ActorLoop::run), the actor context and its drop path, the request      *)
(* correlation table of RemoteHandler with the ping of RemoteClient, the   *)
(* actor directory, membership table and lookups of RemoteRegistry, the    *)
(* request routing of ShardHost, the actor scheduler of coerce-rt, the     *)
(* accept loop of RemoteServer, and the client table of                    *)
(* RemoteClientRegistry.                                                   *)
(***************************************************************************)
EXTENDS Integers, Sequences, FiniteSets, TLC

(***************************************************************************)
(* Bounds of the model.                                                    *)
(***************************************************************************)
\* the number of envelopes each sending task notifies
MaxMsgs == 2

\* the number of oneshot reply channels created for the request table
MaxSinks == 2

\* the number of PingTick messages the client handles
MaxTicks == 2

\* the number of RegisterNodes and UpdateNodes messages the registries handle
MaxMemberOps == 2

\* the number of messages a registry's mailbox holds
MaxQueue == 2

\* the number of EntityRequests the sender submits to the shard host
MaxReqs == 3

\* the number of GetActorNode messages the registries handle
MaxLookups == 1

\* the number of connections that arrive at the server's listener
MaxConns == 2

\* the number of times listener.accept() returns an error
MaxAcceptErrors == 1

\* the number of ClientWrite messages sent to the RemoteClientRegistry
MaxWrites == 3

\* the number of RegisterClient and DeregisterClient messages sent to it
MaxClientOps == 2

(***************************************************************************)
(* The local actor runtime: actors, sending tasks, stop subscribers.       *)
(***************************************************************************)
NoRef == "none"

\* the supervision tree the run explores: p spawns c1 and c2, c1 spawns g
Actors == {"p", "c1", "c2", "g"}

Root == "p"

ParentOf(a) ==
    CASE a = "c1" -> "p"
      [] a = "c2" -> "p"
      [] a = "g" -> "c1"
      [] OTHER -> NoRef

\* the tasks that hold a ref to the root actor and notify it
Senders == {"t1", "t2"}

\* the receivers of the one-shot stop-completion senders
Subs == {"s1"}

NoSub == "nosub"

ActorStatus == {"Starting", "Started", "Stopping", "Stopped"}

\* the position of a status in Starting, Started, Stopping, Stopped
Rank(s) ==
    CASE s = "Starting" -> 0
      [] s = "Started" -> 1
      [] s = "Stopping" -> 2
      [] s = "Stopped" -> 3

\* ctx.supervised: None, or Some(table of children)
NoTable == [some |-> FALSE, children |-> {}]

NoMsg == [kind |-> "none", from |-> "none", seq |-> 0]

StopFromSupervisor == [kind |-> "stop", from |-> "sup", seq |-> 0]

ChildTerminated(c) == [kind |-> "child_terminated", from |-> c, seq |-> 0]

\* only a tracked actor with a system deregisters: the root is tracked,
\* supervised children are not
Tracked(a) == a = Root

VARIABLES
    pc,          \* the position of each actor's ActorLoop::run
    status,      \* ctx.status of each actor
    mailbox,     \* the envelopes queued in each actor's channel
    cur,         \* the envelope whose handler runs
    handled,     \* history: the envelopes whose handler was invoked, in order
    inflight,    \* the number of handler invocations in progress
    startedCalls, \* history: invocations of the started hook
    stoppedCalls, \* history: invocations of the stopped hook
    onStart,     \* the start oneshot: pending, true, dropped
    onStopped,   \* ctx.on_actor_stopped: the subscribers' senders
    subState,    \* each subscriber's receiver: unused, waiting, signalled, closed
    subOwner,    \* history: the actor a subscriber registered with
    supervised,  \* ctx.supervised: NoTable or the set of children
    ctxParent,   \* ctx.boxed_parent_ref
    finaliser,   \* the task Drop spawns: none, stop_all, done
    finParent,   \* the parent ref the finaliser captured
    asked,       \* history: stop_all asked this child to stop
    notices,     \* history: notify_child_terminated calls made for the actor
    deregs,      \* history: DeregisterActor messages sent for the actor
    sent,        \* the number of envelopes each sender has notified
    \* RemoteHandler and RemoteClient
    requests,    \* RemoteHandler.requests: RequestId -> reply sink
    sinkState,   \* each oneshot: unused, open, ok, err, dropped, rxgone
    sinkId,      \* history: the RequestId a sink was pushed under
    delivered,   \* history: how often a PopRequest returned the sink
    lastOp,      \* history: the last message RemoteHandler handled
    poppedSince, \* history: the id was popped and not pushed since
    nextSink,    \* the next oneshot channel to create
    usedIds,     \* the RequestIds generated so far
    pingSink,    \* the oneshot whose receiver the ping of a RequestId holds
    pingTask,    \* the ping of each RequestId: none, waiting, ok, err,
                 \* timeout, writefail
    hbLog,       \* the NodePing results the heartbeat actor received, per ping
    hbDisconnected, \* the NodePing(_, Disconnected) the heartbeat actor received
    clientState, \* RemoteClient.state: none, idle, connected
    remoteNodeKnown, \* RemoteClient.remote_node_id is Some
    hbPresent,   \* remote.heartbeat_actor() is Some
    ticks,       \* the PingTicks handled
    \* RemoteRegistry of every node
    view,        \* RemoteRegistry.nodes: the ids of the nodes it knows
    actorsTbl,   \* RemoteRegistry.actors: ActorId -> NodeId, 0 for no entry
    regQueue,    \* the RegisterActor messages in the registry's mailbox
    net,         \* the RegisterActor session events in flight
    eventsSent,  \* history: the session events each registry has sent
    pendingEvents, \* the NodeAdded cluster events published to the registry
    scheduled,   \* the actors of the node's scheduler
    memberOps,   \* the membership messages handled
    lastRegister, \* history: the last RegisterNodes and its failed handshakes
    \* ShardHost, for the shard of one actor id
    hostMailbox, \* the messages in the host's mailbox
    submitted,   \* the EntityRequests the sender has submitted
    hosted,      \* hosted_shards[shard]: absent, starting, ready
    requestBuffer, \* the request_buffer of ShardState::Starting
    remoteShard, \* remote_shards has the shard
    leader,      \* current_leader().is_some()
    pendingShard,  \* requests_pending_shard_allocation[shard]
    pendingLeader, \* requests_pending_leader_allocation
    sendTasks,   \* the spawned tasks that send a request to the shard actor
    shardInbox,  \* the requests in the order they reached the shard actor
    remoteTasks, \* the remote_entity_request task of each request
    remoteSent,  \* the RemoteEntityRequests in the order they were notified
    replied,     \* the requests whose caller got the reply of the entity
    unavailable, \* the requests whose caller got ActorUnavailable
    allocPending,  \* the AllocateShard tasks awaiting the coordinator
    allocSent,   \* history: the AllocateShard messages sent
    allocation,  \* the node the coordinator assigned the shard to
    allocTasks,  \* the spawned tasks that have not sent AllocateShard yet
    lastReply,   \* history: the coordinator's last reply to AllocateShard
    bufferedStarting, \* history: the requests handle_request pushed on Starting
    \* a task that holds a ref to the root actor and calls send on it
    stopCall,    \* its send(Stop): none, queued, returned, refused, dropped
    lateCall,    \* its send after that: none, queued, ok, refused, dropped
    refsDropped, \* every sender of the root's channel has been dropped
    \* the scheduler of coerce-rt and the tasks that register actors with it
    schedAlive,  \* the scheduler's loop runs
    schedMailbox, \* the messages in the scheduler's mailbox
    schedTable,  \* ActorScheduler.actors: the ids registered
    taskPc,      \* the position of each registering task
    sendRes,     \* the result of scheduler.send(RegisterActor): none, ok, err
    ack,         \* the oneshot of RegisterActor: pending, true, false, dropped
    regResult,   \* what new_tracked_actor returned
    getReply,    \* the result of scheduler.send(GetActor): none, ok_some, ok_none, err
    getResult,   \* what get_actor returned
    lookupPc,    \* the GetActorNode in progress: idle, waiting, done, panicked
    lookupAt,    \* the registry that handled the GetActorNode
    lookupId,    \* the actor id looked up
    lookupTarget, \* the directory node the lookup task asked
    lookupReply, \* what res_rx.await gave the lookup task
    lookupAnswer, \* the caller's sink: pending, sent or dropped
    lookupNode,  \* the Option<NodeId> sent into the caller's sink
    lookupPushed, \* the task's sink is in the request table under its fresh id
    findSent,    \* the FindActor events the lookup has sent
    lookupResp,  \* the node_id of the ActorAddress response
    lookups,     \* the GetActorNode messages handled
    token,       \* the server's cancellation token is cancelled
    loopPc,      \* the position of server_loop: accept, new_session, exited
    backlog,     \* the connections waiting in the listener
    nextConn,    \* the next connection to arrive
    curConn,     \* the connection server_loop is creating a session for
    sessions,    \* the session of each connection: none, running, closed
    storeAlive,  \* the session store answers NewSession
    acceptErrors, \* the accept errors logged
    crMailbox,   \* the mailbox of the RemoteClientRegistry
    clients,     \* the node ids of its clients table
    crPc,        \* its handler: idle, or awaiting client.send(Write)
    clientInbox, \* per node, the Write frames its client has not handled
    written,     \* per node, the frames its client's Write has handled
    droppedWrites, \* the frames of ClientWrite messages that found no client
    writesSubmitted, \* the ClientWrite messages sent so far
    clientOps    \* the RegisterClient and DeregisterClient messages sent

actorVars ==
    <<pc, status, mailbox, cur, handled, inflight, startedCalls, stoppedCalls,
      onStart, onStopped, subState, subOwner, supervised, ctxParent, finaliser,
      finParent, asked, notices, deregs, sent>>

reqVars ==
    <<requests, sinkState, sinkId, delivered, lastOp, poppedSince, nextSink,
      usedIds, pingSink, pingTask, hbLog, hbDisconnected, clientState,
      remoteNodeKnown, hbPresent, ticks>>

dirVars ==
    <<view, actorsTbl, regQueue, net, eventsSent, pendingEvents, scheduled,
      memberOps, lastRegister>>

shardVars ==
    <<hostMailbox, submitted, hosted, requestBuffer, remoteShard, leader,
      pendingShard, pendingLeader, sendTasks, shardInbox, remoteTasks,
      remoteSent, replied, unavailable, allocPending, allocSent, allocation,
      allocTasks, lastReply, bufferedStarting>>

callVars == <<stopCall, lateCall, refsDropped>>

schedVars ==
    <<schedAlive, schedMailbox, schedTable, taskPc, sendRes, ack, regResult,
      getReply, getResult>>

lookupVars ==
    <<lookupPc, lookupAt, lookupId, lookupTarget, lookupReply, lookupAnswer,
      lookupNode, lookupPushed, findSent, lookupResp, lookups>>

serverVars ==
    <<token, loopPc, backlog, nextConn, curConn, sessions, storeAlive,
      acceptErrors>>

writeVars ==
    <<crMailbox, clients, crPc, clientInbox, written, droppedWrites,
      writesSubmitted, clientOps>>

vars ==
    <<actorVars, reqVars, dirVars, shardVars, callVars, schedVars, lookupVars,
      serverVars, writeVars>>

notActorVars ==
    <<reqVars, dirVars, shardVars, callVars, schedVars, lookupVars, serverVars,
      writeVars>>

notReqVars ==
    <<actorVars, dirVars, shardVars, callVars, schedVars, lookupVars, serverVars,
      writeVars>>

notDirVars ==
    <<actorVars, reqVars, shardVars, callVars, schedVars, lookupVars, serverVars,
      writeVars>>

notShardVars ==
    <<actorVars, reqVars, dirVars, callVars, schedVars, lookupVars, serverVars,
      writeVars>>

\* what the actions of the calling task leave alone
notCallVars ==
    <<reqVars, dirVars, shardVars, schedVars, lookupVars, serverVars,
      writeVars>>

notSchedVars ==
    <<actorVars, reqVars, dirVars, shardVars, callVars, lookupVars, serverVars,
      writeVars>>

notLookupVars ==
    <<actorVars, reqVars, dirVars, shardVars, callVars, schedVars, serverVars,
      writeVars>>

notServerVars ==
    <<actorVars, reqVars, dirVars, shardVars, callVars, schedVars, lookupVars,
      writeVars>>

notWriteVars ==
    <<actorVars, reqVars, dirVars, shardVars, callVars, schedVars, lookupVars,
      serverVars>>

InitActors ==
    /\ pc = [a \in Actors |-> IF a = Root THEN "started_hook" ELSE "unspawned"]
    /\ status = [a \in Actors |-> "Starting"]
    /\ mailbox = [a \in Actors |-> <<>>]
    /\ cur = [a \in Actors |-> NoMsg]
    /\ handled = [a \in Actors |-> <<>>]
    /\ inflight = [a \in Actors |-> 0]
    /\ startedCalls = [a \in Actors |-> IF a = Root THEN 1 ELSE 0]
    /\ stoppedCalls = [a \in Actors |-> 0]
    /\ onStart = [a \in Actors |-> "pending"]
    /\ onStopped = [a \in Actors |-> <<>>]
    /\ subState = [s \in Subs |-> "unused"]
    /\ subOwner = [s \in Subs |-> NoRef]
    /\ supervised = [a \in Actors |-> NoTable]
    /\ ctxParent = [a \in Actors |-> NoRef]
    /\ finaliser = [a \in Actors |-> "none"]
    /\ finParent = [a \in Actors |-> NoRef]
    /\ asked = [a \in Actors |-> FALSE]
    /\ notices = [a \in Actors |-> 0]
    /\ deregs = [a \in Actors |-> 0]
    /\ sent = [t \in Senders |-> 0]

\* RequestIds are UUIDs; the oneshot channels are numbered as they are created
ReqIds == {"u1", "u2"}

Sinks == 1..MaxSinks

NoSink == 0

InitRequests ==
    /\ requests = [id \in ReqIds |-> NoSink]
    /\ sinkState = [k \in Sinks |-> "unused"]
    /\ sinkId = [k \in Sinks |-> "none"]
    /\ delivered = [k \in Sinks |-> 0]
    /\ lastOp = [op |-> "none", id |-> "none", result |-> NoSink, dup |-> FALSE]
    /\ poppedSince = [id \in ReqIds |-> FALSE]
    /\ nextSink = 1
    /\ usedIds = {}
    /\ pingSink = [id \in ReqIds |-> NoSink]
    /\ pingTask = [id \in ReqIds |-> "none"]
    /\ hbLog = [id \in ReqIds |-> <<>>]
    /\ hbDisconnected = 0
    /\ clientState = "idle"
    /\ remoteNodeKnown = FALSE
    /\ hbPresent = FALSE
    /\ ticks = 0

\* the nodes of the cluster; a node id of 0 stands for no node
Nodes == {1, 2}

NoNode == 0

ActorIds == {"a", "b"}

\* the node on which each actor is started
HostOf(id) == IF id = "a" THEN 1 ELSE 2

\* no RegisterNodes has been handled since the membership was last replaced
NoRegister == [node |-> NoNode, failed |-> {}, pendingBefore |-> {}]

InitDirectory ==
    /\ view = [n \in Nodes |-> {}]
    /\ actorsTbl = [n \in Nodes |-> [id \in ActorIds |-> NoNode]]
    /\ regQueue = [n \in Nodes |-> <<>>]
    /\ net = {}
    /\ eventsSent = [n \in Nodes |-> 0]
    /\ pendingEvents = [n \in Nodes |-> {}]
    /\ scheduled = [n \in Nodes |-> {}]
    /\ memberOps = 0
    /\ lastRegister = NoRegister

\* the EntityRequests of one sender for one actor id, numbered in the order
\* of submission
Reqs == 1..MaxReqs

InitShard ==
    /\ hostMailbox = <<>>
    /\ submitted = 0
    /\ hosted = "absent"
    /\ requestBuffer = <<>>
    /\ remoteShard = FALSE
    /\ leader = FALSE
    /\ pendingShard = <<>>
    /\ pendingLeader = <<>>
    /\ sendTasks = {}
    /\ shardInbox = <<>>
    /\ remoteTasks = [n \in Reqs |-> "none"]
    /\ remoteSent = <<>>
    /\ replied = {}
    /\ unavailable = {}
    /\ allocPending = 0
    /\ allocSent = 0
    /\ allocation = "none"
    /\ allocTasks = 0
    /\ lastReply = "none"
    /\ bufferedStarting = {}

InitCalls ==
    /\ stopCall = "none"
    /\ lateCall = "none"
    /\ refsDropped = FALSE

\* the tasks that call new_tracked_actor and then get_actor; each registers
\* the actor whose id is the task's name
Tasks == {"k1", "k2"}

InitSched ==
    /\ schedAlive = TRUE
    /\ schedMailbox = <<>>
    /\ schedTable = {}
    /\ taskPc = [k \in Tasks |-> "idle"]
    /\ sendRes = [k \in Tasks |-> "none"]
    /\ ack = [k \in Tasks |-> "pending"]
    /\ regResult = [k \in Tasks |-> "none"]
    /\ getReply = [k \in Tasks |-> "none"]
    /\ getResult = [k \in Tasks |-> "none"]

\* Option<NodeId>
None == [some |-> FALSE, node |-> 0]

Some(node_id) == [some |-> TRUE, node |-> node_id]

\* no GetActorNode has been handled
InitLookup ==
    /\ lookupPc = "idle"
    /\ lookupAt = NoNode
    /\ lookupId = "a"
    /\ lookupTarget = NoNode
    /\ lookupReply = "none"
    /\ lookupAnswer = "pending"
    /\ lookupNode = None
    /\ lookupPushed = FALSE
    /\ findSent = 0
    /\ lookupResp = 0
    /\ lookups = 0

\* the connections that arrive at the listener
Conns == 1..MaxConns

\* RemoteServer::start has spawned server_loop; no client has connected
InitServer ==
    /\ token = FALSE
    /\ loopPc = "accept"
    /\ backlog = <<>>
    /\ nextConn = 1
    /\ curConn = 0
    /\ sessions = [c \in Conns |-> "none"]
    /\ storeAlive = TRUE
    /\ acceptErrors = 0

\* the node ids that ClientWrite, RegisterClient and DeregisterClient name
ClientNodes == {1, 2}

\* the frames of the ClientWrite messages, numbered in the order sent
Frames == 1..MaxWrites

\* RemoteClientRegistry::new: an empty clients table, nothing received
InitWrites ==
    /\ crMailbox = <<>>
    /\ clients = {}
    /\ crPc = "idle"
    /\ clientInbox = [c \in ClientNodes |-> <<>>]
    /\ written = [c \in ClientNodes |-> <<>>]
    /\ droppedWrites = {}
    /\ writesSubmitted = 0
    /\ clientOps = 0

Init ==
    /\ InitActors /\ InitRequests /\ InitDirectory /\ InitShard /\ InitCalls
    /\ InitSched /\ InitLookup /\ InitServer /\ InitWrites

\* the receiver of an actor's channel lives as long as its run does
ReceiverAlive(a) == pc[a] \notin {"unspawned", "done"}

\* user code of the actor is running: a hook, or the handler of a user message
InUserCode(a) ==
    \/ pc[a] \in {"started_hook", "stopped_hook"}
    \/ pc[a] = "handling" /\ cur[a].kind = "msg"

(***************************************************************************)
(* Senders: notify enqueues on the unbounded channel, or fails when the    *)
(* receiver is gone.                                                       *)
(***************************************************************************)
Notify(t, k) ==
    /\ ~refsDropped
    /\ sent[t] < MaxMsgs
    /\ sent' = [sent EXCEPT ![t] = @ + 1]
    /\ mailbox' = IF ReceiverAlive(Root)
                  THEN [mailbox EXCEPT ![Root] =
                          Append(@, [kind |-> k, from |-> t, seq |-> sent[t] + 1])]
                  ELSE mailbox
    /\ UNCHANGED notActorVars
    /\ UNCHANGED <<pc, status, cur, handled, inflight, startedCalls,
                   stoppedCalls, onStart, onStopped, subState, subOwner,
                   supervised, ctxParent, finaliser, finParent, asked, notices,
                   deregs>>

(***************************************************************************)
(* The context's operations, called by hooks and handlers.                 *)
(***************************************************************************)
CtxSetStatus(a, s) ==
    /\ InUserCode(a)
    /\ status' = [status EXCEPT ![a] = s]
    /\ UNCHANGED notActorVars
    /\ UNCHANGED <<pc, mailbox, cur, handled, inflight, startedCalls,
                   stoppedCalls, onStart, onStopped, subState, subOwner,
                   supervised, ctxParent, finaliser, finParent, asked, notices,
                   deregs, sent>>

\* add_on_stopped_handler: push on the list, or create it
AddOnStoppedHandler(list, sub) == Append(list, sub)

CtxStop(a, sub) ==
    /\ InUserCode(a)
    /\ sub # NoSub => subState[sub] = "unused"
    /\ onStopped' = IF sub # NoSub
                    THEN [onStopped EXCEPT ![a] = AddOnStoppedHandler(@, sub)]
                    ELSE onStopped
    /\ subState' = IF sub # NoSub
                   THEN [subState EXCEPT ![sub] = "waiting"]
                   ELSE subState
    /\ subOwner' = IF sub # NoSub
                   THEN [subOwner EXCEPT ![sub] = a]
                   ELSE subOwner
    /\ status' = [status EXCEPT ![a] = "Stopping"]
    /\ UNCHANGED notActorVars
    /\ UNCHANGED <<pc, mailbox, cur, handled, inflight, startedCalls,
                   stoppedCalls, onStart, supervised, ctxParent, finaliser,
                   finParent, asked, notices, deregs, sent>>

CtxAddOnStopped(a, sub) ==
    /\ InUserCode(a)
    /\ subState[sub] = "unused"
    /\ onStopped' = [onStopped EXCEPT ![a] = AddOnStoppedHandler(@, sub)]
    /\ subState' = [subState EXCEPT ![sub] = "waiting"]
    /\ subOwner' = [subOwner EXCEPT ![sub] = a]
    /\ UNCHANGED notActorVars
    /\ UNCHANGED <<pc, status, mailbox, cur, handled, inflight, startedCalls,
                   stoppedCalls, onStart, supervised, ctxParent, finaliser,
                   finParent, asked, notices, deregs, sent>>

\* ctx.spawn: create the supervised table when there is none, start the
\* child's loop with this context's ref as parent, insert the child
Spawn(a, c) ==
    /\ InUserCode(a)
    /\ ParentOf(c) = a
    /\ pc[c] = "unspawned"
    /\ supervised' = [supervised EXCEPT ![a] =
                        [some |-> TRUE, children |-> @.children \cup {c}]]
    /\ pc' = [pc EXCEPT ![c] = "started_hook"]
    /\ startedCalls' = [startedCalls EXCEPT ![c] = @ + 1]
    /\ ctxParent' = [ctxParent EXCEPT ![c] = a]
    /\ UNCHANGED notActorVars
    /\ UNCHANGED <<status, mailbox, cur, handled, inflight, stoppedCalls,
                   onStart, onStopped, subState, subOwner, finaliser,
                   finParent, asked, notices, deregs, sent>>

(***************************************************************************)
(* The release of the context at the end of run: Drop for ActorContext,    *)
(* followed by the drop of its fields and of the run's receiver.           *)
(***************************************************************************)
\* the local parent_ref that drop takes out of the context
TakenParentRef(a) == ctxParent[a]

\* self.boxed_parent_ref as the branch without a supervised table reads it:
\* the take() before it has left None in the field
FieldAfterTake(a) == NoRef

\* on_context_dropped: notify_child_terminated toward the parent's mailbox
OnContextDroppedMailbox(mb, a, parent_ref) ==
    IF parent_ref # NoRef /\ ReceiverAlive(parent_ref)
    THEN [mb EXCEPT ![parent_ref] = Append(@, ChildTerminated(a))]
    ELSE mb

OnContextDroppedNotices(n, a, parent_ref) ==
    IF parent_ref # NoRef THEN [n EXCEPT ![a] = @ + 1] ELSE n

\* the senders of on_actor_stopped are dropped with the context: run never
\* sends on them, so each waiting receiver completes with a closed channel
DropSubscribers(a) ==
    [s \in Subs |->
        IF subOwner[s] = a /\ subState[s] = "waiting" THEN "closed" ELSE subState[s]]

RunEnd(a) ==
    /\ pc' = [pc EXCEPT ![a] = "done"]
    /\ onStart' = [onStart EXCEPT ![a] = IF @ = "pending" THEN "dropped" ELSE @]
    /\ subState' = DropSubscribers(a)
    /\ ctxParent' = [ctxParent EXCEPT ![a] = NoRef]
    /\ IF supervised[a].some
       THEN /\ finaliser' = [finaliser EXCEPT ![a] = "stop_all"]
            /\ finParent' = [finParent EXCEPT ![a] = TakenParentRef(a)]
            /\ mailbox' = [mailbox EXCEPT ![a] = <<>>]
            /\ notices' = notices
       ELSE /\ mailbox' = OnContextDroppedMailbox(
                              [mailbox EXCEPT ![a] = <<>>], a, FieldAfterTake(a))
            /\ notices' = OnContextDroppedNotices(notices, a, FieldAfterTake(a))
            /\ UNCHANGED <<finaliser, finParent>>

(***************************************************************************)
(* ActorLoop::run.                                                         *)
(***************************************************************************)
\* a departure from the code: run goes on whatever status started left
ReturnsAfterStartedNever(s) == FALSE

\* the match after actor.started: Stopping => return
ReturnsAfterStarted(s) == s = "Stopping"

\* actor.started returned: a status of Stopping ends run, any other status
\* is replaced by Started and the start oneshot is signalled
StartedReturn(a) ==
    /\ pc[a] = "started_hook"
    /\ IF ReturnsAfterStarted(status[a])
       THEN /\ RunEnd(a)
            /\ UNCHANGED status
       ELSE /\ status' = [status EXCEPT ![a] = "Started"]
            /\ onStart' = [onStart EXCEPT ![a] = "true"]
            /\ pc' = [pc EXCEPT ![a] = "recv"]
            /\ UNCHANGED <<mailbox, subState, ctxParent, finaliser, finParent,
                           notices>>
    /\ UNCHANGED notActorVars
    /\ UNCHANGED <<cur, handled, inflight, startedCalls, stoppedCalls,
                   onStopped, subOwner, supervised, asked, deregs, sent>>

\* a departure from the code: the loop takes the next envelope while a
\* handler is still running
CanRecvWhileHandling(a) == pc[a] \in {"recv", "handling"}

\* the loop takes the next envelope only from receiver.recv().await, which it
\* reaches after the previous handler has returned
CanRecv(a) == pc[a] = "recv"

\* a departure from the code: recv yields the newest envelope
NextEnvelopeNewest(q) == q[Len(q)]

\* recv yields the oldest envelope of the channel
NextEnvelope(q) == Head(q)

Recv(a) ==
    /\ CanRecv(a)
    /\ mailbox[a] # <<>>
    /\ cur' = [cur EXCEPT ![a] = NextEnvelope(mailbox[a])]
    /\ mailbox' = [mailbox EXCEPT ![a] = Tail(@)]
    /\ handled' = [handled EXCEPT ![a] = Append(@, NextEnvelope(mailbox[a]))]
    /\ inflight' = [inflight EXCEPT ![a] = @ + 1]
    /\ pc' = [pc EXCEPT ![a] = "handling"]
    /\ UNCHANGED notActorVars
    /\ UNCHANGED <<status, startedCalls, stoppedCalls, onStart, onStopped,
                   subState, subOwner, supervised, ctxParent, finaliser,
                   finParent, asked, notices, deregs, sent>>

\* a departure from the code: the Stop handler leaves the status as it is
StopHandlerKeepsStatus(s) == s

\* Handler<Stop>: ctx.set_status(Stopping)
StopHandlerStatus(s) == "Stopping"

\* the parent's handler of a child's termination removes the child's entry
OnChildTerminated(tbl, c) == [tbl EXCEPT !.children = @ \ {c}]

\* the status the handler leaves behind
StatusAfterHandler(a) ==
    IF cur[a].kind = "stop" THEN StopHandlerStatus(status[a]) ELSE status[a]

\* a departure from the code: no status breaks the loop
BreaksLoopNever(s) == FALSE

\* a departure from the code: Stopped breaks the loop as Stopping does
BreaksLoopOnStopped(s) == s \in {"Stopping", "Stopped"}

\* after every handler: Stopping breaks the loop
BreaksLoop(s) == s = "Stopping"

\* msg.handle returned: the loop inspects the status; on Stopping it leaves
\* the loop, sets Stopping and invokes actor.stopped
HandlerReturn(a) ==
    /\ pc[a] = "handling"
    /\ inflight' = [inflight EXCEPT ![a] = @ - 1]
    /\ cur' = [cur EXCEPT ![a] = NoMsg]
    /\ supervised' = IF cur[a].kind = "child_terminated"
                     THEN [supervised EXCEPT ![a] = OnChildTerminated(@, cur[a].from)]
                     ELSE supervised
    /\ IF BreaksLoop(StatusAfterHandler(a))
       THEN /\ status' = [status EXCEPT ![a] = "Stopping"]
            /\ pc' = [pc EXCEPT ![a] = "stopped_hook"]
            /\ stoppedCalls' = [stoppedCalls EXCEPT ![a] = @ + 1]
       ELSE /\ status' = [status EXCEPT ![a] = StatusAfterHandler(a)]
            /\ pc' = [pc EXCEPT ![a] = "recv"]
            /\ UNCHANGED stoppedCalls
    /\ UNCHANGED notActorVars
    /\ UNCHANGED <<mailbox, handled, startedCalls, onStart, onStopped, subState,
                   subOwner, ctxParent, finaliser, finParent, asked, notices,
                   deregs, sent>>

\* actor.stopped returned: set Stopped; a tracked actor sends DeregisterActor
\* to the scheduler and awaits the reply, any other actor's run ends
StoppedReturn(a) ==
    /\ pc[a] = "stopped_hook"
    /\ status' = [status EXCEPT ![a] = "Stopped"]
    /\ IF Tracked(a)
       THEN /\ deregs' = [deregs EXCEPT ![a] = @ + 1]
            /\ pc' = [pc EXCEPT ![a] = "deregistering"]
            /\ UNCHANGED <<mailbox, onStart, subState, ctxParent, finaliser,
                           finParent, notices>>
       ELSE /\ RunEnd(a)
            /\ UNCHANGED deregs
    /\ UNCHANGED notActorVars
    /\ UNCHANGED <<cur, handled, inflight, startedCalls, stoppedCalls,
                   onStopped, subOwner, supervised, asked, sent>>

\* the scheduler answered DeregisterActor: run ends
DeregisterAck(a) ==
    /\ pc[a] = "deregistering"
    /\ RunEnd(a)
    /\ UNCHANGED notActorVars
    /\ UNCHANGED <<status, cur, handled, inflight, startedCalls, stoppedCalls,
                   onStopped, subOwner, supervised, asked, deregs, sent>>

(***************************************************************************)
(* The finaliser that Drop detaches for a context with a supervised table: *)
(* supervised.stop_all().await, then on_context_dropped.                   *)
(***************************************************************************)
\* a departure from the code: the children are stopped from within the
\* stopped hook
StopAllRunningInHook(a) == finaliser[a] = "stop_all" \/ pc[a] = "stopped_hook"

\* stop_all runs in the task that drop spawned
StopAllRunning(a) == finaliser[a] = "stop_all"

\* stop_all asks a child to stop
SupStopChild(a, c) ==
    /\ StopAllRunning(a)
    /\ c \in supervised[a].children
    /\ ~asked[c]
    /\ asked' = [asked EXCEPT ![c] = TRUE]
    /\ mailbox' = IF ReceiverAlive(c)
                  THEN [mailbox EXCEPT ![c] = Append(@, StopFromSupervisor)]
                  ELSE mailbox
    /\ UNCHANGED notActorVars
    /\ UNCHANGED <<pc, status, cur, handled, inflight, startedCalls,
                   stoppedCalls, onStart, onStopped, subState, subOwner,
                   supervised, ctxParent, finaliser, finParent, notices, deregs,
                   sent>>

\* stop_all has completed: every child was asked to stop and has terminated
StopAllComplete(a) ==
    \A c \in supervised[a].children : asked[c] /\ pc[c] = "done"

\* a departure from the code: the finaliser reports without awaiting stop_all
FinaliserMayReportAtOnce(a) == TRUE

\* the finaliser reports the termination once stop_all has returned
FinaliserMayReport(a) == StopAllComplete(a)

FinaliserDone(a) ==
    /\ finaliser[a] = "stop_all"
    /\ FinaliserMayReport(a)
    /\ finaliser' = [finaliser EXCEPT ![a] = "done"]
    /\ mailbox' = OnContextDroppedMailbox(mailbox, a, finParent[a])
    /\ notices' = OnContextDroppedNotices(notices, a, finParent[a])
    /\ UNCHANGED notActorVars
    /\ UNCHANGED <<pc, status, cur, handled, inflight, startedCalls,
                   stoppedCalls, onStart, onStopped, subState, subOwner,
                   supervised, ctxParent, finParent, asked, deregs, sent>>

(***************************************************************************)
(* RemoteHandler: the table of requests awaiting a response.               *)
(***************************************************************************)
\* the sender half of the oneshot is dropped without a value: a receiver
\* that still waits sees a closed channel
DropSender(st, sink) ==
    IF sink # NoSink /\ st[sink] = "open" THEN [st EXCEPT ![sink] = "dropped"] ELSE st

\* a value is sent on the oneshot; the send fails when the receiver is gone
SendOnSink(st, sink, r) ==
    IF sink # NoSink /\ st[sink] = "open" THEN [st EXCEPT ![sink] = r] ELSE st

\* Handler<PushRequest>: self.requests.insert(id, sink)
TableAfterPush(tbl, id, sink) == [tbl EXCEPT ![id] = sink]

\* Handler<PopRequest>: the value of self.requests.remove(&id)
PopResult(tbl, id) == tbl[id]

\* a departure from the code: the handler reads the entry and leaves it in
\* the table
TableAfterPopKept(tbl, id) == tbl

\* Handler<PopRequest>: the table after self.requests.remove(&id)
TableAfterPop(tbl, id) == [tbl EXCEPT ![id] = NoSink]

\* what push_request does to the table and to the oneshots
PushEffect(id, sink) ==
    /\ requests' = TableAfterPush(requests, id, sink)
    /\ sinkId' = [sinkId EXCEPT ![sink] = id]
    /\ poppedSince' = [poppedSince EXCEPT ![id] = FALSE]
    /\ nextSink' = nextSink + 1
    /\ usedIds' = usedIds \cup {id}
    /\ lastOp' = [op |-> "push", id |-> id, result |-> NoSink, dup |-> FALSE]

\* a PushRequest with any id, also one that is in the table
PushRequest(id) ==
    /\ nextSink <= MaxSinks
    /\ PushEffect(id, nextSink)
    /\ sinkState' = [DropSender(sinkState, requests[id]) EXCEPT ![nextSink] = "open"]
    /\ UNCHANGED <<delivered, pingTask, hbLog, hbDisconnected, clientState,
                   remoteNodeKnown, hbPresent, ticks>>
    /\ UNCHANGED pingSink
    /\ UNCHANGED notReqVars

\* a response carrying the id arrives: PopRequest(id), and the response is
\* sent on the sink the handler returned; with no sink it is dropped
PopRequest(id, r) ==
    /\ id \in usedIds
    /\ requests' = TableAfterPop(requests, id)
    /\ lastOp' = [op |-> "pop", id |-> id, result |-> PopResult(requests, id),
                  dup |-> poppedSince[id]]
    /\ poppedSince' = [poppedSince EXCEPT ![id] = TRUE]
    /\ delivered' = IF PopResult(requests, id) # NoSink
                    THEN [delivered EXCEPT ![PopResult(requests, id)] = @ + 1]
                    ELSE delivered
    /\ sinkState' = SendOnSink(sinkState, PopResult(requests, id), r)
    /\ UNCHANGED <<sinkId, nextSink, usedIds, pingTask, hbLog, hbDisconnected,
                   clientState, remoteNodeKnown, hbPresent, ticks>>
    /\ UNCHANGED pingSink
    /\ UNCHANGED notReqVars

(***************************************************************************)
(* RemoteClient: Handler<PingTick> and the task it spawns.                 *)
(***************************************************************************)
\* the client connects, disconnects or loses its state
SetClientState(cs) ==
    /\ clientState # cs
    /\ clientState' = cs
    /\ UNCHANGED <<requests, sinkState, sinkId, delivered, lastOp, poppedSince,
                   nextSink, usedIds, pingTask, hbLog, hbDisconnected,
                   remoteNodeKnown, hbPresent, ticks>>
    /\ UNCHANGED pingSink
    /\ UNCHANGED notReqVars

\* the handshake tells the client the id of the remote node
LearnRemoteNode ==
    /\ ~remoteNodeKnown
    /\ remoteNodeKnown' = TRUE
    /\ UNCHANGED <<requests, sinkState, sinkId, delivered, lastOp, poppedSince,
                   nextSink, usedIds, pingTask, hbLog, hbDisconnected,
                   clientState, hbPresent, ticks>>
    /\ UNCHANGED pingSink
    /\ UNCHANGED notReqVars

\* the remote system starts its heartbeat actor
StartHeartbeat ==
    /\ ~hbPresent
    /\ hbPresent' = TRUE
    /\ UNCHANGED <<requests, sinkState, sinkId, delivered, lastOp, poppedSince,
                   nextSink, usedIds, pingTask, hbLog, hbDisconnected,
                   clientState, remoteNodeKnown, ticks>>
    /\ UNCHANGED pingSink
    /\ UNCHANGED notReqVars

\* a departure from the code: a tick without a client state notifies too
NotifiesDisconnectedAlways(hb, cs, known) == hb /\ cs # "connected"

\* the tick notifies NodePing(remote_node_id, Disconnected): the heartbeat
\* actor exists, the client state is set but not Connected, and the remote
\* node id is known
NotifiesDisconnected(hb, cs, known) == hb /\ cs = "idle" /\ known

\* the tick returns before it pings: no heartbeat actor, no client state, or
\* a state other than Connected (the heartbeat actor then hears Disconnected
\* when the remote node id is known)
PingTickIdle ==
    /\ ticks < MaxTicks
    /\ ~hbPresent \/ clientState # "connected"
    /\ ticks' = ticks + 1
    /\ hbDisconnected' = IF NotifiesDisconnected(hbPresent, clientState, remoteNodeKnown)
                         THEN hbDisconnected + 1
                         ELSE hbDisconnected
    /\ UNCHANGED <<requests, sinkState, sinkId, delivered, lastOp, poppedSince,
                   nextSink, usedIds, pingTask, hbLog, clientState,
                   remoteNodeKnown, hbPresent>>
    /\ UNCHANGED pingSink
    /\ UNCHANGED notReqVars

\* the ping task exists only when the write of the Ping succeeded
TaskAfterWrite(ok) == IF ok THEN "waiting" ELSE "writefail"

\* Connected: push_request(fresh id, res_tx), write the Ping; on success a
\* task awaits the reply under ping_timeout, on failure res_rx is dropped
PingTick(id, ok) ==
    /\ ticks < MaxTicks
    /\ hbPresent /\ clientState = "connected"
    /\ id \notin usedIds
    /\ nextSink <= MaxSinks
    /\ ticks' = ticks + 1
    /\ PushEffect(id, nextSink)
    /\ sinkState' = [sinkState EXCEPT ![nextSink] = IF ok THEN "open" ELSE "rxgone"]
    /\ pingTask' = [pingTask EXCEPT ![id] = TaskAfterWrite(ok)]
    /\ pingSink' = [pingSink EXCEPT ![id] = nextSink]
    /\ UNCHANGED <<delivered, hbLog, hbDisconnected, clientState,
                   remoteNodeKnown, hbPresent>>
    /\ UNCHANGED notReqVars

\* the sink of the ping with this id
PingSink(id) == pingSink[id]

\* the table after the deadline of a ping expired: the task pops nothing
TableAfterTimeout(tbl, id) == tbl

\* ping_timeout elapsed before the oneshot completed: the heartbeat actor
\* hears Timeout and the receiver is dropped
PingTimeout(id) ==
    /\ pingTask[id] = "waiting"
    /\ sinkState[PingSink(id)] = "open"
    /\ pingTask' = [pingTask EXCEPT ![id] = "timeout"]
    /\ sinkState' = [sinkState EXCEPT ![PingSink(id)] = "rxgone"]
    /\ hbLog' = [hbLog EXCEPT ![id] = Append(@, "Timeout")]
    /\ requests' = TableAfterTimeout(requests, id)
    /\ UNCHANGED <<sinkId, delivered, lastOp, poppedSince, nextSink, usedIds,
                   hbDisconnected, clientState, remoteNodeKnown, hbPresent, ticks>>
    /\ UNCHANGED pingSink
    /\ UNCHANGED notReqVars

\* the result of a completed oneshot: Ok for a response, Err for an error
\* response or a dropped sender
PingResultOf(st) == IF st = "ok" THEN "Ok" ELSE "Err"

\* the oneshot completed within the deadline: the heartbeat actor hears the
\* result
PingComplete(id) ==
    /\ pingTask[id] = "waiting"
    /\ sinkState[PingSink(id)] \in {"ok", "err", "dropped"}
    /\ pingTask' = [pingTask EXCEPT ![id] =
                       IF sinkState[PingSink(id)] = "ok" THEN "ok" ELSE "err"]
    /\ hbLog' = [hbLog EXCEPT ![id] = Append(@, PingResultOf(sinkState[PingSink(id)]))]
    /\ UNCHANGED <<requests, sinkState, sinkId, delivered, lastOp, poppedSince,
                   nextSink, usedIds, hbDisconnected, clientState,
                   remoteNodeKnown, hbPresent, ticks>>
    /\ UNCHANGED pingSink
    /\ UNCHANGED notReqVars

(***************************************************************************)
(* RemoteRegistry: the membership and the actor directory of each node.    *)
(***************************************************************************)
\* the hash of an actor id on the ring
KeyHash(id) == IF id = "a" THEN 0 ELSE 1

\* nodes.get_by_key: the node of the ring that owns the key, NoNode when the
\* ring is empty
GetByKey(id, ring) ==
    IF ring = {} THEN NoNode
    ELSE CHOOSE n \in ring :
            Cardinality({m \in ring : m < n}) = KeyHash(id) % Cardinality(ring)

\* a departure from the code: every id's directory node is the local node
AssignedRegistryNodeLocal(n, id) == n

\* the directory node of an id as registry n computes it: the local node when
\* no nodes are configured
AssignedRegistryNode(n, id) ==
    IF GetByKey(id, view[n]) = NoNode THEN n ELSE GetByKey(id, view[n])

\* the sequences that enumerate a set
Enumerations(S) ==
    {q \in [1..Cardinality(S) -> S] : \A i, j \in 1..Cardinality(S) : q[i] = q[j] => i = j}

\* a tracked actor starts on node n: the scheduler holds it and the system
\* notifies the registry RegisterActor(id, None)
StartActor(n, id) ==
    /\ n = HostOf(id)
    /\ id \notin scheduled[n]
    /\ Len(regQueue[n]) < MaxQueue
    /\ scheduled' = [scheduled EXCEPT ![n] = @ \cup {id}]
    /\ regQueue' = [regQueue EXCEPT ![n] = Append(@, [actor_id |-> id, node_id |-> NoNode])]
    /\ UNCHANGED <<view, actorsTbl, net, eventsSent, pendingEvents, memberOps,
                   lastRegister>>
    /\ UNCHANGED notDirVars

\* self.actors.insert(actor_id, node_id)
ActorsInsert(tbl, id, node) == [tbl EXCEPT ![id] = node]

\* Handler<RegisterActor>: with a node id, insert; without, insert when the
\* directory node is the local node, else send a RegisterActor session event
\* carrying the local node id to the directory node
HandleRegisterActor(n) ==
    /\ regQueue[n] # <<>>
    /\ regQueue' = [regQueue EXCEPT ![n] = Tail(@)]
    /\ LET msg == Head(regQueue[n])
           id == msg.actor_id
       IN  IF msg.node_id # NoNode
           THEN /\ actorsTbl' = [actorsTbl EXCEPT ![n] = ActorsInsert(@, id, msg.node_id)]
                /\ UNCHANGED <<net, eventsSent>>
           ELSE IF AssignedRegistryNode(n, id) = n
                THEN /\ actorsTbl' = [actorsTbl EXCEPT ![n] = ActorsInsert(@, id, n)]
                     /\ UNCHANGED <<net, eventsSent>>
                ELSE /\ net' = net \cup {[to |-> AssignedRegistryNode(n, id),
                                          actor_id |-> id, node_id |-> n]}
                     /\ eventsSent' = [eventsSent EXCEPT ![n] = @ + 1]
                     /\ UNCHANGED actorsTbl
    /\ UNCHANGED <<view, pendingEvents, scheduled, memberOps, lastRegister>>
    /\ UNCHANGED notDirVars

\* the session of the directory node decodes the RegisterActor event and
\* hands RegisterActor(actor_id, Some(node_id)) to its registry
DeliverRegisterActor(ev) ==
    /\ ev \in net
    /\ Len(regQueue[ev.to]) < MaxQueue
    /\ net' = net \ {ev}
    /\ regQueue' = [regQueue EXCEPT ![ev.to] =
                       Append(@, [actor_id |-> ev.actor_id, node_id |-> ev.node_id])]
    /\ UNCHANGED <<view, actorsTbl, eventsSent, pendingEvents, scheduled, memberOps,
                   lastRegister>>
    /\ UNCHANGED notDirVars

\* the nodes of the message that are neither the local node nor registered
UnregisteredNodes(n, ns) == {m \in ns : m # n /\ m \notin view[n]}

\* connect_all: the nodes whose client was created and whose handshake
\* returned a node
ConnectAll(unregistered, reachable) == unregistered \cap reachable

\* the membership after RegisterNodes: register_node for every connected
\* node, then self.nodes.add for every node of the message
NodesAfterRegister(ring, ns, connected) == (ring \cup connected) \cup ns

\* the NodeAdded events RegisterNodes publishes: one for every node of the
\* message
NodeAddedPublished(ns, connected) == ns

\* Handler<RegisterNodes>
RegisterNodes(n, ns, reachable) ==
    /\ memberOps < MaxMemberOps
    /\ memberOps' = memberOps + 1
    /\ LET connected == ConnectAll(UnregisteredNodes(n, ns), reachable)
       IN  /\ view' = [view EXCEPT ![n] = NodesAfterRegister(@, ns, connected)]
           /\ pendingEvents' = [pendingEvents EXCEPT ![n] =
                                   @ \cup NodeAddedPublished(ns, connected)]
           /\ lastRegister' = [node |-> n,
                                failed |-> UnregisteredNodes(n, ns) \ connected,
                                pendingBefore |-> pendingEvents[n]]
    /\ UNCHANGED <<actorsTbl, regQueue, net, eventsSent, scheduled>>
    /\ UNCHANGED notDirVars

\* Handler<UpdateNodes>: the membership is replaced by the nodes supplied
UpdateNodes(n, ns) ==
    /\ memberOps < MaxMemberOps
    /\ memberOps' = memberOps + 1
    /\ view' = [view EXCEPT ![n] = ns]
    /\ lastRegister' = NoRegister
    /\ UNCHANGED <<actorsTbl, regQueue, net, eventsSent, pendingEvents, scheduled>>
    /\ UNCHANGED notDirVars

\* Handler<StreamEvent<SystemTopic>>: on a cluster event a task reads the
\* ids of the scheduler's actors and notifies RegisterActor(id, None) for each
HandleClusterEvent(n, e, order) ==
    /\ e \in pendingEvents[n]
    /\ order \in Enumerations(scheduled[n])
    /\ Len(regQueue[n]) + Len(order) <= MaxQueue
    /\ pendingEvents' = [pendingEvents EXCEPT ![n] = @ \ {e}]
    /\ regQueue' = [regQueue EXCEPT ![n] =
                       @ \o [i \in 1..Len(order) |->
                               [actor_id |-> order[i], node_id |-> NoNode]]]
    /\ UNCHANGED <<view, actorsTbl, net, eventsSent, scheduled, memberOps,
                   lastRegister>>
    /\ UNCHANGED notDirVars

(***************************************************************************)
(* GetActorNode: the registry answers from its own table when it holds the *)
(* id or is the id's directory node; otherwise it spawns a task that sends *)
(* FindActor to the directory node and awaits the response in the request  *)
(* table's sink.                                                           *)
(***************************************************************************)
\* what res_rx.await gives the task: Ok(RemoteResponse::Ok(bytes)) with an
\* address that decodes or does not, Ok(RemoteResponse::Err), or Err when
\* the sink was dropped
LookupReplies == {"ok", "ok_undecodable", "err", "dropped"}

\* the task after res_rx.await: only a decodable Ok response is answered,
\* every other outcome panics
LookupTaskAfterReply(r) == IF r = "ok" THEN "done" ELSE "panicked"

\* the caller's sink after the task ended: the node id of the response was
\* sent (0 as None), or the sink was dropped with the panicking task
LookupAnswerAfterReply(r) ==
    IF LookupTaskAfterReply(r) = "done" THEN "sent" ELSE "dropped"

\* local_registry_entry.map(|s| *s): the entry of the local table, if any
LocalEntry(tbl, id) == IF tbl[id] = NoNode THEN None ELSE Some(tbl[id])

\* a departure from the code: a zero node id is answered like any other
AnswerOfAddressSome(node_id) == Some(node_id)

\* the answer made from a decoded ActorAddress: node id 0 means not found
AnswerOfAddress(node_id) == IF node_id = 0 THEN None ELSE Some(node_id)

\* Handler<GetActorNode>: answer from the local table, or spawn the lookup
\* task
HandleGetActorNode(n, id) ==
    /\ lookupPc = "idle"
    /\ lookups < MaxLookups
    /\ lookups' = lookups + 1
    /\ lookupAt' = n
    /\ lookupId' = id
    /\ lookupReply' = "none"
    /\ IF actorsTbl[n][id] # NoNode \/ AssignedRegistryNode(n, id) = n
       THEN /\ lookupPc' = "done"
            /\ lookupAnswer' = "sent"
            /\ lookupNode' = LocalEntry(actorsTbl[n], id)
            /\ lookupTarget' = NoNode
       ELSE /\ lookupPc' = "spawned"
            /\ lookupAnswer' = "pending"
            /\ lookupNode' = None
            /\ lookupTarget' = AssignedRegistryNode(n, id)
    /\ UNCHANGED <<lookupPushed, findSent, lookupResp>>
    /\ UNCHANGED notLookupVars

\* the lookup task: system.push_request(message_id, res_tx) with a fresh id
LookupPush ==
    /\ lookupPc = "spawned"
    /\ lookupPc' = "pushed"
    /\ lookupPushed' = TRUE
    /\ UNCHANGED <<lookupAt, lookupId, lookupTarget, lookupReply, lookupAnswer,
                   lookupNode, findSent, lookupResp, lookups>>
    /\ UNCHANGED notLookupVars

\* the lookup task: send_message(assigned_registry_node, FindActor)
LookupSend ==
    /\ lookupPc = "pushed"
    /\ lookupPc' = "waiting"
    /\ findSent' = findSent + 1
    /\ UNCHANGED <<lookupAt, lookupId, lookupTarget, lookupReply, lookupAnswer,
                   lookupNode, lookupPushed, lookupResp, lookups>>
    /\ UNCHANGED notLookupVars

\* the spawned task's res_rx.await completes; a decodable response carries
\* the node id the directory node answered
LookupReply(r, node_id) ==
    /\ lookupPc = "waiting"
    /\ r # "ok" => node_id = 0
    /\ lookupReply' = r
    /\ lookupResp' = node_id
    /\ lookupPc' = LookupTaskAfterReply(r)
    /\ lookupAnswer' = LookupAnswerAfterReply(r)
    /\ lookupNode' = IF r = "ok" THEN AnswerOfAddress(node_id) ELSE None
    /\ UNCHANGED <<lookupAt, lookupId, lookupTarget, lookupPushed, findSent,
                   lookups>>
    /\ UNCHANGED notLookupVars

\* the caller has taken the answer; the registry handles its next message
LookupEnds ==
    /\ lookupPc \in {"done", "panicked"}
    /\ lookupPc' = "idle"
    /\ lookupAnswer' = "pending"
    /\ lookupNode' = None
    /\ lookupPushed' = FALSE
    /\ findSent' = 0
    /\ lookupResp' = 0
    /\ lookupReply' = "none"
    /\ lookupAt' = NoNode
    /\ lookupId' = "a"
    /\ lookupTarget' = NoNode
    /\ UNCHANGED lookups
    /\ UNCHANGED notLookupVars

(***************************************************************************)
(* The remote server: server_loop accepts connections under a cancellation *)
(* token and asks the session store to create a session for each.          *)
(***************************************************************************)
\* what accept() can return: the branches of its select that are ready; the
\* select picks any ready branch
AcceptResults(cancelled, waiting, can_fail) ==
    (IF cancelled THEN {"none"} ELSE {})
        \cup (IF waiting # <<>> THEN {"ok"} ELSE {})
        \cup (IF can_fail THEN {"err"} ELSE {})

\* a departure from the code: an accept error ends the loop
LoopAfterAcceptErrorEnds(res) ==
    IF res = "ok" THEN "new_session" ELSE "exited"

\* server_loop's match on accept(): a connection goes to NewSession, an
\* error is logged and the loop continues, None breaks
LoopAfterAccept(res) ==
    CASE res = "ok" -> "new_session"
      [] res = "err" -> "accept"
      [] OTHER -> "exited"

\* a client connects to the listener
ClientConnects ==
    /\ nextConn <= MaxConns
    /\ backlog' = Append(backlog, nextConn)
    /\ nextConn' = nextConn + 1
    /\ UNCHANGED <<token, loopPc, curConn, sessions, storeAlive, acceptErrors>>
    /\ UNCHANGED notServerVars

\* RemoteServer::stop
ServerStop ==
    /\ ~token
    /\ token' = TRUE
    /\ UNCHANGED <<loopPc, backlog, nextConn, curConn, sessions, storeAlive,
                   acceptErrors>>
    /\ UNCHANGED notServerVars

\* one pass of server_loop up to the match on accept()
Accept(res) ==
    /\ loopPc = "accept"
    /\ res \in AcceptResults(token, backlog, acceptErrors < MaxAcceptErrors)
    /\ loopPc' = LoopAfterAccept(res)
    /\ backlog' = IF res = "ok" THEN Tail(backlog) ELSE backlog
    /\ curConn' = IF res = "ok" THEN Head(backlog) ELSE curConn
    /\ acceptErrors' = IF res = "err" THEN acceptErrors + 1 ELSE acceptErrors
    /\ UNCHANGED <<token, nextConn, sessions, storeAlive>>
    /\ UNCHANGED notServerVars

\* session_store.send(NewSession(..)).await returns: the session runs, or
\* the error is logged; the loop continues either way
NewSessionReturns ==
    /\ loopPc = "new_session"
    /\ sessions' = IF storeAlive THEN [sessions EXCEPT ![curConn] = "running"]
                   ELSE sessions
    /\ loopPc' = "accept"
    /\ curConn' = 0
    /\ UNCHANGED <<token, backlog, nextConn, storeAlive, acceptErrors>>
    /\ UNCHANGED notServerVars

\* the session store stops: NewSession fails from now on
SessionStoreStops ==
    /\ storeAlive
    /\ storeAlive' = FALSE
    /\ UNCHANGED <<token, loopPc, backlog, nextConn, curConn, sessions,
                   acceptErrors>>
    /\ UNCHANGED notServerVars

\* a session ends on its own: its client disconnected
SessionCloses(c) ==
    /\ sessions[c] = "running"
    /\ sessions' = [sessions EXCEPT ![c] = "closed"]
    /\ UNCHANGED <<token, loopPc, backlog, nextConn, curConn, storeAlive,
                   acceptErrors>>
    /\ UNCHANGED notServerVars

(***************************************************************************)
(* A task that calls send on a ref to the root actor: the envelope carries *)
(* a oneshot reply sink and the caller awaits the reply.                   *)
(***************************************************************************)
StopEnvelope == [kind |-> "stop", from |-> "caller", seq |-> 0]

LateEnvelope == [kind |-> "msg", from |-> "caller", seq |-> 1]

\* the handler of the envelope was invoked and has returned: the reply is in
\* the sink
Answered(e) ==
    /\ \E i \in 1..Len(handled[Root]) : handled[Root][i] = e
    /\ cur[Root] # e

\* the envelope was dropped with the channel, its handler never invoked: the
\* caller's receiver sees a closed sink
DroppedUnhandled(e) ==
    /\ pc[Root] = "done"
    /\ \A i \in 1..Len(handled[Root]) : handled[Root][i] # e

\* the error send returns for a call that ended in the state st
CallError(st) ==
    CASE st = "refused" -> "ActorUnavailable"
      [] st = "dropped" -> "ActorUnavailable"
      [] OTHER -> "none"

\* the states in which a call has returned to its caller
CallReturned(st) == st \in {"returned", "ok", "refused", "dropped"}

\* the actor's variables that an enqueue leaves alone
EnqueueUnchanged ==
    UNCHANGED <<pc, status, cur, handled, inflight, startedCalls, stoppedCalls,
                onStart, onStopped, subState, subOwner, supervised, ctxParent,
                finaliser, finParent, asked, notices, deregs, sent>>

\* send(Stop): the envelope is enqueued, or the send is refused at once when
\* the receiver is gone
SendStop ==
    /\ ~refsDropped
    /\ stopCall = "none"
    /\ IF ReceiverAlive(Root)
       THEN /\ mailbox' = [mailbox EXCEPT ![Root] = Append(@, StopEnvelope)]
            /\ stopCall' = "queued"
       ELSE /\ stopCall' = "refused"
            /\ UNCHANGED mailbox
    /\ EnqueueUnchanged
    /\ UNCHANGED <<lateCall, refsDropped>>
    /\ UNCHANGED notCallVars

\* the caller's await of the Stop reply completes
StopCallReturns ==
    /\ stopCall = "queued"
    /\ \/ Answered(StopEnvelope) /\ stopCall' = "returned"
       \/ DroppedUnhandled(StopEnvelope) /\ stopCall' = "dropped"
    /\ UNCHANGED <<lateCall, refsDropped>>
    /\ UNCHANGED actorVars
    /\ UNCHANGED notCallVars

\* a send that the caller issues after its send(Stop) has returned
SendLate ==
    /\ ~refsDropped
    /\ CallReturned(stopCall)
    /\ lateCall = "none"
    /\ IF ReceiverAlive(Root)
       THEN /\ mailbox' = [mailbox EXCEPT ![Root] = Append(@, LateEnvelope)]
            /\ lateCall' = "queued"
       ELSE /\ lateCall' = "refused"
            /\ UNCHANGED mailbox
    /\ EnqueueUnchanged
    /\ UNCHANGED <<stopCall, refsDropped>>
    /\ UNCHANGED notCallVars

\* the caller's await of the later reply completes
LateCallReturns ==
    /\ lateCall = "queued"
    /\ \/ Answered(LateEnvelope) /\ lateCall' = "ok"
       \/ DroppedUnhandled(LateEnvelope) /\ lateCall' = "dropped"
    /\ UNCHANGED <<stopCall, refsDropped>>
    /\ UNCHANGED actorVars
    /\ UNCHANGED notCallVars

\* the last ref to the actor is dropped: the channel has no sender left
DropRefs ==
    /\ ~refsDropped
    /\ stopCall # "queued" /\ lateCall # "queued"
    /\ refsDropped' = TRUE
    /\ UNCHANGED <<stopCall, lateCall>>
    /\ UNCHANGED actorVars
    /\ UNCHANGED notCallVars

\* receiver.recv() yields None: the channel is empty and has no sender; the
\* while-let ends, run sets Stopping and invokes actor.stopped
MailboxClosed(a) ==
    /\ a = Root
    /\ CanRecv(a)
    /\ refsDropped
    /\ mailbox[a] = <<>>
    /\ status' = [status EXCEPT ![a] = "Stopping"]
    /\ pc' = [pc EXCEPT ![a] = "stopped_hook"]
    /\ stoppedCalls' = [stoppedCalls EXCEPT ![a] = @ + 1]
    /\ UNCHANGED <<mailbox, cur, handled, inflight, startedCalls, onStart,
                   onStopped, subState, subOwner, supervised, ctxParent,
                   finaliser, finParent, asked, notices, deregs, sent>>
    /\ UNCHANGED callVars
    /\ UNCHANGED notCallVars

(***************************************************************************)
(* coerce-rt: ActorContext::new_tracked_actor and get_actor, and the       *)
(* scheduler actor they send to.                                           *)
(***************************************************************************)
\* a departure from the code: the acknowledgement is not inspected
NewTrackedActorResultUnchecked(send_result, acked) ==
    IF send_result = "ok" THEN "ok_ref" ELSE "err_send"

\* new_tracked_actor: match rx.await { Ok(true) => actor_ref, _ => Err(ActorUnavailable) }
NewTrackedActorResult(send_result, acked) ==
    IF acked = "true"
    THEN IF send_result = "ok" THEN "ok_ref" ELSE "err_send"
    ELSE "unavailable"

\* a departure from the code: the scheduler's answer is discarded
GetActorResultDiscarded(reply) == "nothing"

\* get_actor: match scheduler.send(GetActor) { Ok(a) => a, Err(_) => None }
GetActorResult(reply) == IF reply = "ok_some" THEN "some" ELSE "nothing"

\* new_tracked_actor: scheduler.send(RegisterActor(actor, tx)); a send to a
\* scheduler that has stopped fails and drops the message with its tx
CallRegister(k) ==
    /\ taskPc[k] = "idle"
    /\ taskPc' = [taskPc EXCEPT ![k] = IF schedAlive THEN "reg_sent" ELSE "await_ack"]
    /\ schedMailbox' = IF schedAlive
                       THEN Append(schedMailbox, [kind |-> "register", id |-> k])
                       ELSE schedMailbox
    /\ sendRes' = [sendRes EXCEPT ![k] = IF schedAlive THEN @ ELSE "err"]
    /\ ack' = [ack EXCEPT ![k] = IF schedAlive THEN @ ELSE "dropped"]
    /\ UNCHANGED <<schedAlive, schedTable, regResult, getReply, getResult>>
    /\ UNCHANGED notSchedVars

\* Handler<RegisterActor>: the scheduler starts the actor with tx as its
\* start oneshot, inserts its ref under its id and answers with the ref
SchedRegister ==
    /\ schedAlive
    /\ schedMailbox # <<>>
    /\ Head(schedMailbox).kind = "register"
    /\ schedMailbox' = Tail(schedMailbox)
    /\ schedTable' = schedTable \cup {Head(schedMailbox).id}
    /\ sendRes' = [sendRes EXCEPT ![Head(schedMailbox).id] = "ok"]
    /\ taskPc' = [taskPc EXCEPT ![Head(schedMailbox).id] = "await_ack"]
    /\ UNCHANGED <<schedAlive, ack, regResult, getReply, getResult>>
    /\ UNCHANGED notSchedVars

\* the started actor's loop resolves the start oneshot: it sends a value or
\* drops the sender
StartAck(k, v) ==
    /\ sendRes[k] = "ok"
    /\ ack[k] = "pending"
    /\ ack' = [ack EXCEPT ![k] = v]
    /\ UNCHANGED <<schedAlive, schedMailbox, schedTable, taskPc, sendRes,
                   regResult, getReply, getResult>>
    /\ UNCHANGED notSchedVars

\* new_tracked_actor returns once rx.await has completed
RegisterReturns(k) ==
    /\ taskPc[k] = "await_ack"
    /\ ack[k] # "pending"
    /\ regResult' = [regResult EXCEPT ![k] = NewTrackedActorResult(sendRes[k], ack[k])]
    /\ taskPc' = [taskPc EXCEPT ![k] =
                     IF NewTrackedActorResult(sendRes[k], ack[k]) = "ok_ref"
                     THEN "registered" ELSE "failed"]
    /\ UNCHANGED <<schedAlive, schedMailbox, schedTable, sendRes, ack, getReply,
                   getResult>>
    /\ UNCHANGED notSchedVars

\* get_actor(id) right after new_tracked_actor returned Ok: the GetActor is
\* enqueued, or the send fails at once and get_actor returns None
CallGet(k) ==
    /\ taskPc[k] = "registered"
    /\ IF schedAlive
       THEN /\ schedMailbox' = Append(schedMailbox, [kind |-> "get", id |-> k])
            /\ taskPc' = [taskPc EXCEPT ![k] = "get_sent"]
            /\ UNCHANGED <<getReply, getResult>>
       ELSE /\ getReply' = [getReply EXCEPT ![k] = "err"]
            /\ getResult' = [getResult EXCEPT ![k] = GetActorResult("err")]
            /\ taskPc' = [taskPc EXCEPT ![k] = "got"]
            /\ UNCHANGED schedMailbox
    /\ UNCHANGED <<schedAlive, schedTable, sendRes, ack, regResult>>
    /\ UNCHANGED notSchedVars

\* Handler<GetActor>: the scheduler answers with the ref stored under the id
SchedGet ==
    /\ schedAlive
    /\ schedMailbox # <<>>
    /\ Head(schedMailbox).kind = "get"
    /\ schedMailbox' = Tail(schedMailbox)
    /\ LET k == Head(schedMailbox).id
           reply == IF k \in schedTable THEN "ok_some" ELSE "ok_none"
       IN  /\ getReply' = [getReply EXCEPT ![k] = reply]
           /\ getResult' = [getResult EXCEPT ![k] = GetActorResult(reply)]
           /\ taskPc' = [taskPc EXCEPT ![k] = "got"]
    /\ UNCHANGED <<schedAlive, schedTable, sendRes, ack, regResult>>
    /\ UNCHANGED notSchedVars

\* the actor of a task that has finished its get stops: its loop sends
\* DeregisterActor to the scheduler
ActorStops(k) ==
    /\ taskPc[k] = "got"
    /\ schedAlive
    /\ taskPc' = [taskPc EXCEPT ![k] = "stopped"]
    /\ schedMailbox' = Append(schedMailbox, [kind |-> "deregister", id |-> k])
    /\ UNCHANGED <<schedAlive, schedTable, sendRes, ack, regResult, getReply, getResult>>
    /\ UNCHANGED notSchedVars

\* Handler<DeregisterActor>: the entry is removed
SchedDeregister ==
    /\ schedAlive
    /\ schedMailbox # <<>>
    /\ Head(schedMailbox).kind = "deregister"
    /\ schedMailbox' = Tail(schedMailbox)
    /\ schedTable' = schedTable \ {Head(schedMailbox).id}
    /\ UNCHANGED <<schedAlive, taskPc, sendRes, ack, regResult, getReply, getResult>>
    /\ UNCHANGED notSchedVars

\* the task whose message of the given kind is in the mailbox
Waiting(k, kind) == \E i \in 1..Len(schedMailbox) :
                        schedMailbox[i].kind = kind /\ schedMailbox[i].id = k

\* the scheduler's loop ends: the envelopes in its mailbox are dropped, each
\* with its reply sink and, for RegisterActor, its tx
SchedStops ==
    /\ schedAlive
    /\ schedAlive' = FALSE
    /\ schedMailbox' = <<>>
    /\ sendRes' = [k \in Tasks |-> IF Waiting(k, "register") THEN "err" ELSE sendRes[k]]
    /\ ack' = [k \in Tasks |-> IF Waiting(k, "register") THEN "dropped" ELSE ack[k]]
    /\ getReply' = [k \in Tasks |-> IF Waiting(k, "get") THEN "err" ELSE getReply[k]]
    /\ getResult' = [k \in Tasks |->
                        IF Waiting(k, "get") THEN GetActorResult("err") ELSE getResult[k]]
    /\ taskPc' = [k \in Tasks |->
                     IF Waiting(k, "register") THEN "await_ack"
                     ELSE IF Waiting(k, "get") THEN "got" ELSE taskPc[k]]
    /\ UNCHANGED <<schedTable, regResult>>
    /\ UNCHANGED notSchedVars

(***************************************************************************)
(* ShardHost: the routing of EntityRequests for one shard.                 *)
(***************************************************************************)
\* the sender notifies the host of its next EntityRequest
SubmitRequest ==
    /\ submitted < MaxReqs
    /\ submitted' = submitted + 1
    /\ hostMailbox' = Append(hostMailbox, [kind |-> "req", n |-> submitted + 1, node |-> "none"])
    /\ UNCHANGED <<hosted, requestBuffer, remoteShard, leader, pendingShard,
                   pendingLeader, sendTasks, shardInbox, remoteTasks, remoteSent,
                   replied, unavailable, allocPending, allocSent, allocation>>
    /\ UNCHANGED <<allocTasks, lastReply, bufferedStarting>>
    /\ UNCHANGED notShardVars

\* a departure from the code: the request goes to the front of the buffer
BufferAfterRequestFront(buf, n) == <<n>> \o buf

\* ShardHost::handle_request on ShardState::Starting: request_buffer.push
BufferAfterRequest(buf, n) == Append(buf, n)

\* ShardHost::handle_request on ShardState::Ready: a task is spawned that
\* sends the request to the shard actor
TasksAfterRequest(tasks, n) == tasks \cup {n}

\* a departure from the code: a known leader is looked at first
RouteOfLeaderFirst(h, r, l) ==
    IF l THEN "pending_shard"
    ELSE IF h # "absent" THEN "hosted"
    ELSE IF r THEN "remote"
    ELSE "pending_leader"

\* the place Handler<EntityRequest> chooses for a request
RouteOf(h, r, l) ==
    IF h # "absent" THEN "hosted"
    ELSE IF r THEN "remote"
    ELSE IF l THEN "pending_shard"
    ELSE "pending_leader"

\* Handler<EntityRequest> for ShardHost
HandleEntityRequest ==
    /\ hostMailbox # <<>>
    /\ Head(hostMailbox).kind = "req"
    /\ hostMailbox' = Tail(hostMailbox)
    /\ LET n == Head(hostMailbox).n
           route == RouteOf(hosted, remoteShard, leader)
       IN  /\ requestBuffer' =
                 IF route = "hosted" /\ hosted = "starting"
                 THEN BufferAfterRequest(requestBuffer, n) ELSE requestBuffer
           /\ sendTasks' =
                 IF route = "hosted" /\ hosted = "ready"
                 THEN TasksAfterRequest(sendTasks, n) ELSE sendTasks
           /\ remoteTasks' =
                 IF route = "remote"
                 THEN [remoteTasks EXCEPT ![n] = "spawned"] ELSE remoteTasks
           /\ pendingShard' =
                 IF route = "pending_shard" THEN Append(pendingShard, n) ELSE pendingShard
           /\ allocTasks' =
                 IF route = "pending_shard" THEN allocTasks + 1 ELSE allocTasks
           /\ pendingLeader' =
                 IF route = "pending_leader" THEN Append(pendingLeader, n) ELSE pendingLeader
           /\ bufferedStarting' =
                 IF route = "hosted" /\ hosted = "starting"
                 THEN bufferedStarting \cup {n} ELSE bufferedStarting
    /\ UNCHANGED <<submitted, hosted, remoteShard, leader, shardInbox, remoteSent,
                   replied, unavailable, allocation, allocPending, allocSent,
                   lastReply>>
    /\ UNCHANGED notShardVars

\* the task spawned by the handler runs leader.send(AllocateShard)
AllocSend ==
    /\ allocTasks > 0
    /\ allocTasks' = allocTasks - 1
    /\ allocSent' = allocSent + 1
    /\ allocPending' = allocPending + 1
    /\ UNCHANGED <<hostMailbox, submitted, hosted, requestBuffer, remoteShard,
                   leader, pendingShard, pendingLeader, sendTasks, shardInbox,
                   remoteTasks, remoteSent, replied, unavailable, allocation,
                   lastReply, bufferedStarting>>
    /\ UNCHANGED notShardVars

\* the replies of the coordinator to AllocateShard
AllocReplies == {"local", "remote", "error", "not_allocated"}

\* a departure from the code: the reply of the coordinator is discarded
MailboxAfterAllocReplyDiscarded(mb, reply) == mb

\* the task spawned for AllocateShard: only Ok(Allocated(shard_id, node_id))
\* notifies ShardAllocated to the host, any other reply is discarded
MailboxAfterAllocReply(mb, reply) ==
    IF reply \in {"local", "remote"}
    THEN Append(mb, [kind |-> "allocated", n |-> 0, node |-> reply])
    ELSE mb

\* the coordinator answers one AllocateShard; it assigns the shard to one
\* node only
AllocReply(reply) ==
    /\ allocPending > 0
    /\ reply \in {"local", "remote"} => allocation \in {"none", reply}
    /\ allocPending' = allocPending - 1
    /\ allocation' = IF reply \in {"local", "remote"} THEN reply ELSE allocation
    /\ hostMailbox' = MailboxAfterAllocReply(hostMailbox, reply)
    /\ lastReply' = reply
    /\ UNCHANGED <<submitted, hosted, requestBuffer, remoteShard, leader,
                   pendingShard, pendingLeader, sendTasks, shardInbox, remoteTasks,
                   remoteSent, replied, unavailable, allocSent>>
    /\ UNCHANGED <<allocTasks, bufferedStarting>>
    /\ UNCHANGED notShardVars

\* the remote tasks after the queued requests were moved to the remote shard
RemoteTasksAfterMove(tasks, q) ==
    [n \in Reqs |-> IF \E i \in 1..Len(q) : q[i] = n THEN "spawned" ELSE tasks[n]]

\* Handler<ShardAllocated>: a shard allocated to the local node starts with
\* the queued requests in its buffer, one allocated elsewhere becomes a
\* remote shard and the queued requests are sent to it
HandleShardAllocated ==
    /\ hostMailbox # <<>>
    /\ Head(hostMailbox).kind = "allocated"
    /\ hostMailbox' = Tail(hostMailbox)
    /\ IF Head(hostMailbox).node = "local"
       THEN /\ hosted' = IF hosted = "absent" THEN "starting" ELSE hosted
            /\ requestBuffer' = IF hosted = "ready" THEN requestBuffer
                                ELSE requestBuffer \o pendingShard
            /\ sendTasks' = IF hosted = "ready"
                            THEN sendTasks \cup {pendingShard[i] : i \in 1..Len(pendingShard)}
                            ELSE sendTasks
            /\ UNCHANGED <<remoteShard, remoteTasks>>
       ELSE /\ remoteShard' = TRUE
            /\ remoteTasks' = RemoteTasksAfterMove(remoteTasks, pendingShard)
            /\ UNCHANGED <<hosted, requestBuffer, sendTasks>>
    /\ pendingShard' = <<>>
    /\ UNCHANGED <<submitted, leader, pendingLeader, shardInbox, remoteSent,
                   replied, unavailable, allocPending, allocSent, allocation>>
    /\ UNCHANGED <<allocTasks, lastReply, bufferedStarting>>
    /\ UNCHANGED notShardVars

\* the shard actor has started: the state becomes Ready and the buffer is
\* drained in enqueue order
ShardReady ==
    /\ hosted = "starting"
    /\ hosted' = "ready"
    /\ shardInbox' = shardInbox \o requestBuffer
    /\ requestBuffer' = <<>>
    /\ UNCHANGED <<hostMailbox, submitted, remoteShard, leader, pendingShard,
                   pendingLeader, sendTasks, remoteTasks, remoteSent, replied,
                   unavailable, allocPending, allocSent, allocation>>
    /\ UNCHANGED <<allocTasks, lastReply, bufferedStarting>>
    /\ UNCHANGED notShardVars

\* a leader becomes known: the requests that waited for it are queued for
\* the allocation of the shard, in their order, and the coordinator is asked
LeaderElected ==
    /\ ~leader
    /\ leader' = TRUE
    /\ pendingShard' = pendingShard \o pendingLeader
    /\ pendingLeader' = <<>>
    /\ allocTasks' = IF pendingLeader # <<>> THEN allocTasks + 1 ELSE allocTasks
    /\ UNCHANGED <<hostMailbox, submitted, hosted, requestBuffer, remoteShard,
                   sendTasks, shardInbox, remoteTasks, remoteSent, replied,
                   unavailable, allocation, allocPending, allocSent>>
    /\ UNCHANGED <<lastReply, bufferedStarting>>
    /\ UNCHANGED notShardVars

\* a task spawned by handle_request runs actor.send(message): the request
\* reaches the shard actor's mailbox
SendTaskRun(n) ==
    /\ n \in sendTasks
    /\ sendTasks' = sendTasks \ {n}
    /\ shardInbox' = Append(shardInbox, n)
    /\ UNCHANGED <<hostMailbox, submitted, hosted, requestBuffer, remoteShard,
                   leader, pendingShard, pendingLeader, remoteTasks, remoteSent,
                   replied, unavailable, allocPending, allocSent, allocation>>
    /\ UNCHANGED <<allocTasks, lastReply, bufferedStarting>>
    /\ UNCHANGED notShardVars

\* remote_entity_request: push_request(request_id, tx) with a fresh id
RemoteTaskPush(n) ==
    /\ remoteTasks[n] = "spawned"
    /\ remoteTasks' = [remoteTasks EXCEPT ![n] = "pushed"]
    /\ UNCHANGED <<hostMailbox, submitted, hosted, requestBuffer, remoteShard,
                   leader, pendingShard, pendingLeader, sendTasks, shardInbox,
                   remoteSent, replied, unavailable, allocPending, allocSent,
                   allocation>>
    /\ UNCHANGED <<allocTasks, lastReply, bufferedStarting>>
    /\ UNCHANGED notShardVars

\* a departure from the code: the request is sent before its sink is pushed
RemoteTaskMaySendUnpushed(st) == st \in {"spawned", "pushed"}

\* the task notifies the remote shard after push_request
RemoteTaskMaySend(st) == st = "pushed"

\* the task's state after rx.await: the reply it received
RemoteTaskAfterReply(r) ==
    CASE r = "ok" -> "done_ok"
      [] r = "err" -> "done_err"
      [] OTHER -> "done_closed"

\* remote_entity_request: the RemoteEntityRequest is notified to the remote
\* shard and the task awaits the reply
RemoteTaskSend(n) ==
    /\ RemoteTaskMaySend(remoteTasks[n])
    /\ remoteTasks' = [remoteTasks EXCEPT ![n] = "waiting"]
    /\ remoteSent' = Append(remoteSent, n)
    /\ UNCHANGED <<hostMailbox, submitted, hosted, requestBuffer, remoteShard,
                   leader, pendingShard, pendingLeader, sendTasks, shardInbox,
                   replied, unavailable, allocPending, allocSent, allocation>>
    /\ UNCHANGED <<allocTasks, lastReply, bufferedStarting>>
    /\ UNCHANGED notShardVars

\* remote_entity_request: rx completes with a reply (forwarded to the
\* caller's sink, an error as ActorUnavailable) or with a closed channel
RemoteReply(n, r) ==
    /\ remoteTasks[n] = "waiting"
    /\ remoteTasks' = [remoteTasks EXCEPT ![n] = RemoteTaskAfterReply(r)]
    /\ replied' = IF r = "ok" THEN replied \cup {n} ELSE replied
    /\ unavailable' = IF r = "err" THEN unavailable \cup {n} ELSE unavailable
    /\ UNCHANGED <<hostMailbox, submitted, hosted, requestBuffer, remoteShard,
                   leader, pendingShard, pendingLeader, sendTasks, shardInbox,
                   remoteSent, allocPending, allocSent, allocation>>
    /\ UNCHANGED <<allocTasks, lastReply, bufferedStarting>>
    /\ UNCHANGED notShardVars

\* one actor and the tasks that notify it
NextLoop ==
    \/ \E t \in Senders, k \in {"msg", "stop"} : Notify(t, k)
    \/ \E a \in Actors, s \in ActorStatus : CtxSetStatus(a, s)
    \/ \E a \in Actors, sub \in Subs \cup {NoSub} : CtxStop(a, sub)
    \/ \E a \in Actors, sub \in Subs : CtxAddOnStopped(a, sub)
    \/ \E a \in Actors : StartedReturn(a)
    \/ \E a \in Actors : Recv(a)
    \/ \E a \in Actors : HandlerReturn(a)
    \/ \E a \in Actors : StoppedReturn(a)
    \/ \E a \in Actors : DeregisterAck(a)
    \/ DropRefs
    \/ \E a \in Actors : MailboxClosed(a)

SpecLoop == Init /\ [][NextLoop]_vars

\* one actor, a sender, and a task that calls send(Stop) and then send
NextCalls ==
    \/ SendStop
    \/ StopCallReturns
    \/ SendLate
    \/ LateCallReturns
    \/ \E k \in {"msg", "stop"} : Notify("t1", k)
    \/ \E a \in Actors, s \in ActorStatus : CtxSetStatus(a, s)
    \/ \E a \in Actors : CtxStop(a, NoSub)
    \/ \E a \in Actors : StartedReturn(a)
    \/ \E a \in Actors : Recv(a)
    \/ \E a \in Actors : HandlerReturn(a)
    \/ \E a \in Actors : StoppedReturn(a)
    \/ \E a \in Actors : DeregisterAck(a)

SpecCalls == Init /\ [][NextCalls]_vars

\* the supervision tree: the root is told to stop, hooks spawn and stop
NextSup ==
    \/ \E t \in {"t1"} : Notify(t, "stop")
    \/ \E a \in Actors, sub \in Subs \cup {NoSub} : CtxStop(a, sub)
    \/ \E a \in Actors, c \in Actors : Spawn(a, c)
    \/ \E a \in Actors : StartedReturn(a)
    \/ \E a \in Actors : Recv(a)
    \/ \E a \in Actors : HandlerReturn(a)
    \/ \E a \in Actors : StoppedReturn(a)
    \/ \E a \in Actors : DeregisterAck(a)
    \/ \E a \in Actors, c \in Actors : SupStopChild(a, c)
    \/ \E a \in Actors : FinaliserDone(a)

SpecSup == Init /\ [][NextSup]_vars

\* the request table and the client's ping
NextRequests ==
    \/ \E id \in ReqIds : PushRequest(id)
    \/ \E id \in ReqIds, r \in {"ok", "err"} : PopRequest(id, r)
    \/ \E cs \in {"none", "idle", "connected"} : SetClientState(cs)
    \/ LearnRemoteNode
    \/ StartHeartbeat
    \/ PingTickIdle
    \/ \E id \in ReqIds, ok \in BOOLEAN : PingTick(id, ok)
    \/ \E id \in ReqIds : PingTimeout(id)
    \/ \E id \in ReqIds : PingComplete(id)

SpecRequests == Init /\ [][NextRequests]_vars

\* the client's own tasks run to their end: a waiting ping completes or times
\* out; responses of the peer are not guaranteed
SpecRequestsFair ==
    /\ SpecRequests
    /\ \A id \in ReqIds : WF_vars(PingTimeout(id) \/ PingComplete(id))

\* the registries of the cluster
NextDirectory ==
    \/ \E n \in Nodes, id \in ActorIds : StartActor(n, id)
    \/ \E n \in Nodes : HandleRegisterActor(n)
    \/ \E ev \in net : DeliverRegisterActor(ev)
    \/ \E n \in Nodes, ns \in SUBSET Nodes \ {{}}, reachable \in SUBSET Nodes :
          RegisterNodes(n, ns, reachable)
    \/ \E n \in Nodes, ns \in SUBSET Nodes : UpdateNodes(n, ns)
    \/ \E n \in Nodes, e \in Nodes :
          \E order \in Enumerations(scheduled[n]) : HandleClusterEvent(n, e, order)

SpecDirectory == Init /\ [][NextDirectory]_vars

\* the registries and a caller that looks an actor up
NextLookup ==
    \/ \E n \in Nodes, id \in ActorIds : StartActor(n, id)
    \/ \E n \in Nodes : HandleRegisterActor(n)
    \/ \E ev \in net : DeliverRegisterActor(ev)
    \/ \E n \in Nodes, ns \in SUBSET Nodes \ {{}}, reachable \in SUBSET Nodes :
          RegisterNodes(n, ns, reachable)
    \/ \E n \in Nodes, id \in ActorIds : HandleGetActorNode(n, id)
    \/ LookupPush
    \/ LookupSend
    \/ \E r \in LookupReplies, node_id \in {0} \cup Nodes : LookupReply(r, node_id)
    \/ LookupEnds

SpecLookup == Init /\ [][NextLookup]_vars

\* the server loop, its clients and the session store
NextServer ==
    \/ ClientConnects
    \/ ServerStop
    \/ \E res \in {"none", "ok", "err"} : Accept(res)
    \/ NewSessionReturns
    \/ SessionStoreStops
    \/ \E c \in Conns : SessionCloses(c)

SpecServer == Init /\ [][NextServer]_vars

\* the select of accept() picks among its ready branches at random, so the
\* cancellation branch is taken once it stays or keeps becoming ready; the
\* session store answers every NewSession
SpecServerFair ==
    /\ SpecServer
    /\ SF_vars(Accept("none"))
    /\ WF_vars(NewSessionReturns)

\* the scheduler and the tasks that register with it
NextSched ==
    \/ \E k \in Tasks : CallRegister(k)
    \/ SchedRegister
    \/ \E k \in Tasks, v \in {"true", "false", "dropped"} : StartAck(k, v)
    \/ \E k \in Tasks : RegisterReturns(k)
    \/ \E k \in Tasks : CallGet(k)
    \/ SchedGet
    \/ \E k \in Tasks : ActorStops(k)
    \/ SchedDeregister
    \/ SchedStops

SpecSched == Init /\ [][NextSched]_vars

\* the shard host, its sender, the coordinator and the tasks it spawns
NextShard ==
    \/ SubmitRequest
    \/ HandleEntityRequest
    \/ AllocSend
    \/ \E reply \in AllocReplies : AllocReply(reply)
    \/ HandleShardAllocated
    \/ ShardReady
    \/ LeaderElected
    \/ \E n \in Reqs : SendTaskRun(n)
    \/ \E n \in Reqs : RemoteTaskPush(n)
    \/ \E n \in Reqs : RemoteTaskSend(n)
    \/ \E n \in Reqs, r \in {"ok", "err", "closed"} : RemoteReply(n, r)

SpecShard == Init /\ [][NextShard]_vars

\* the host handles its mailbox, the coordinator answers, the shard actor
\* starts and every spawned task runs
SpecShardFair ==
    /\ SpecShard
    /\ WF_vars(HandleEntityRequest)
    /\ WF_vars(HandleShardAllocated)
    /\ WF_vars(AllocSend)
    /\ WF_vars(\E reply \in AllocReplies : AllocReply(reply))
    /\ WF_vars(ShardReady)
    /\ \A n \in Reqs : WF_vars(SendTaskRun(n))
    /\ \A n \in Reqs : WF_vars(RemoteTaskPush(n))
    /\ \A n \in Reqs : WF_vars(RemoteTaskSend(n))

(***************************************************************************)
(* Properties of the mailbox loop.                                         *)
(***************************************************************************)
\* the envelopes of sender t among the first n handled by actor a
HandledFrom(a, t, n) == {i \in 1..n : handled[a][i].from = t}

\* C1: FIFO per sender and receiver. The handlers of one sender's envelopes
\* are invoked in the order the sender notified them, none skipped: the k-th
\* envelope of a sender that is handled is the k-th it notified, so m1 is
\* handled before m2 whatever other senders interleave.
C1_FifoPerSender ==
    \A a \in Actors : \A j \in 1..Len(handled[a]) :
        handled[a][j].from \in Senders =>
            /\ handled[a][j].seq = Cardinality(HandledFrom(a, handled[a][j].from, j))
            /\ \A i \in 1..(j - 1) :
                  handled[a][i].from = handled[a][j].from =>
                      handled[a][i].seq < handled[a][j].seq

\* both envelopes of one sender were handled with another sender's in between
C1_Witness ==
    \E i, j, k \in 1..Len(handled[Root]) :
        /\ i < j /\ j < k
        /\ handled[Root][i].from = "t1"
        /\ handled[Root][j].from = "t2"
        /\ handled[Root][k].from = "t1"

\* C2: single-consumer mailbox. At most one handler invocation is in progress
\* per actor, and the loop waits at recv only with no handler in progress.
C2_SingleConsumer ==
    \A a \in Actors :
        /\ inflight[a] <= 1
        /\ pc[a] = "recv" => inflight[a] = 0
        /\ inflight[a] = 1 => pc[a] = "handling"

\* a handler is in progress while two senders' envelopes wait in the queue
C2_Witness ==
    /\ inflight[Root] = 1
    /\ \E i, j \in 1..Len(mailbox[Root]) :
          mailbox[Root][i].from = "t1" /\ mailbox[Root][j].from = "t2"

\* C3: monotone status. No step moves an actor's status back to an earlier
\* state of Starting, Started, Stopping, Stopped.
C3_MonotoneStatus ==
    [][\A a \in Actors : Rank(status'[a]) >= Rank(status[a])]_vars

\* C4: when run has ended, the started hook and the stopped hook have each
\* been invoked exactly once.
C4_HooksExactlyOnce ==
    \A a \in Actors :
        pc[a] = "done" => startedCalls[a] = 1 /\ stoppedCalls[a] = 1

(***************************************************************************)
(* Properties of supervision.                                              *)
(***************************************************************************)
Children(a) == {c \in Actors : ParentOf(c) = a}

Descendants(a) == Children(a) \cup UNION {Children(c) : c \in Children(a)}

HandledStop(a) == \E i \in 1..Len(handled[a]) : handled[a][i].kind = "stop"

\* the subscriber's receiver has completed
Fired(s) == subState[s] \in {"signalled", "closed"}

\* C5: supervision cleanup. When a subscriber of a parent that reached
\* Stopped has fired, every spawned descendant of the parent has reached
\* Stopped.
C5_SubscribersAfterDescendants ==
    \A s \in Subs :
        (Fired(s) /\ subOwner[s] # NoRef /\ status[subOwner[s]] = "Stopped") =>
            \A d \in Descendants(subOwner[s]) :
                pc[d] # "unspawned" => status[d] = "Stopped"

\* the parent's stopped hook has returned
StoppedHookReturned(a) == pc[a] \in {"deregistering", "done"}

\* C6: supervised stop cascade. Once the stopped hook of a parent that
\* spawned c1 and c2 and received Stop has returned, c1 and c2 have reached
\* Stopped.
C6_ChildrenStoppedBeforeHookReturns ==
    (/\ pc["c1"] # "unspawned" /\ pc["c2"] # "unspawned"
     /\ HandledStop(Root)
     /\ StoppedHookReturned(Root)) =>
        status["c1"] = "Stopped" /\ status["c2"] = "Stopped"

\* C6, the order the code keeps: a parent asks a child to stop only after
\* its own run has ended, so after its stopped hook returned (with status Stopped when the
\* parent left its loop on a Stop); the finaliser reports the parent's
\* termination only when every child was asked to stop and has terminated.
C6_ChildrenStoppedByFinaliser ==
    \A a \in Actors :
        /\ \A c \in supervised[a].children :
              asked[c] =>
                  /\ pc[a] = "done"
                  /\ HandledStop(a) => status[a] = "Stopped" /\ stoppedCalls[a] = 1
        /\ finaliser[a] = "done" =>
              \A c \in supervised[a].children : asked[c] /\ pc[c] = "done"

\* the root received Stop, and its finaliser has stopped c1 and c2
C6_Witness ==
    /\ HandledStop(Root)
    /\ finaliser[Root] = "done"
    /\ supervised[Root].children = {"c1", "c2"}
    /\ asked["c1"] /\ asked["c2"]
    /\ status["c1"] = "Stopped" /\ status["c2"] = "Stopped"

\* C25: an actor with a supervised table whose termination was reported to
\* its parent has had stop_all complete first: every supervised child was
\* asked to stop and has terminated.
C25_StopAllBeforeParentNotice ==
    \A a \in Actors :
        (supervised[a].some /\ notices[a] > 0) =>
            \A c \in supervised[a].children : asked[c] /\ pc[c] = "done"

\* c1, which spawned g, has reported its termination to p after g was
\* stopped
C25_Witness ==
    /\ supervised["c1"].some /\ "g" \in supervised["c1"].children
    /\ notices["c1"] = 1
    /\ asked["g"] /\ pc["g"] = "done"

\* the drop of the actor's context has run to its end
DropComplete(a) == pc[a] = "done" /\ finaliser[a] # "stop_all"

\* C7: the drop of the context of an actor that has a parent has emitted
\* exactly one notify_child_terminated.
C7_OneNoticePerChild ==
    \A a \in Actors :
        (ParentOf(a) # NoRef /\ DropComplete(a)) => notices[a] = 1

(***************************************************************************)
(* Properties of the request table.                                        *)
(***************************************************************************)
\* C8: request correlation. No sink is returned by more than one PopRequest;
\* a PopRequest returns the sink stored under its id, which was pushed under
\* that id, and leaves no entry; a PopRequest of an id popped before and not
\* pushed since returns nothing.
C8_RequestCorrelation ==
    /\ \A k \in Sinks : delivered[k] <= 1
    /\ lastOp.op = "pop" =>
          /\ requests[lastOp.id] = NoSink
          /\ lastOp.result # NoSink => sinkId[lastOp.result] = lastOp.id
          /\ lastOp.dup => lastOp.result = NoSink
    /\ \A id \in ReqIds :
          requests[id] # NoSink => sinkId[requests[id]] = id /\ delivered[requests[id]] = 0

\* a second PopRequest of an id found nothing, after the first returned the
\* sink of the second of two pushes under that id
C8_Witness ==
    /\ lastOp.op = "pop" /\ lastOp.dup /\ lastOp.result = NoSink
    /\ \E k \in Sinks : sinkId[k] = lastOp.id /\ delivered[k] = 1
    /\ \E k \in Sinks : sinkId[k] = lastOp.id /\ delivered[k] = 0 /\ sinkState[k] = "dropped"

\* the record that the ping of a RequestId pushed is in the table
PingRecordPending(id) ==
    pingTask[id] # "none" /\ requests[id] # NoSink /\ requests[id] = pingSink[id]

\* C9: every record a ping pushed into the request table is eventually
\* removed, whether its response arrives, its deadline expires or its write
\* failed.
C9_RecordsEventuallyRemoved ==
    \A id \in ReqIds : PingRecordPending(id) ~> ~PingRecordPending(id)

\* C18: a PingTick handled while Connected with a heartbeat actor present
\* gives the heartbeat actor exactly one NodePing: once the handler and the
\* task it spawned are over, one result is in the heartbeat actor's log.
C18_OneNodePingPerTick ==
    \A id \in ReqIds :
        /\ Len(hbLog[id]) <= 1
        /\ pingTask[id] \in {"writefail", "timeout", "ok", "err"} => Len(hbLog[id]) = 1

\* C28: a PingTick handled without a heartbeat actor, without a client
\* state, or in a state other than Connected pushes no request and sends
\* no Ping; it notifies the heartbeat actor of Disconnected once when the
\* heartbeat actor exists, the state is set and the remote node id is known,
\* and has no effect otherwise.
C28_TickNotConnected ==
    [][(ticks' # ticks /\ (~hbPresent \/ clientState # "connected")) =>
          /\ requests' = requests /\ usedIds' = usedIds /\ nextSink' = nextSink
          /\ sinkState' = sinkState /\ pingTask' = pingTask /\ hbLog' = hbLog
          /\ hbDisconnected' =
                 IF hbPresent /\ clientState = "idle" /\ remoteNodeKnown
                 THEN hbDisconnected + 1 ELSE hbDisconnected]_vars

\* two ticks were handled, neither while Connected: one notified
\* Disconnected, the other had no effect, and no request was pushed
C28_Witness ==
    /\ ticks = 2
    /\ hbDisconnected = 1
    /\ usedIds = {}

(***************************************************************************)
(* Properties of the actor directory.                                      *)
(***************************************************************************)
\* the nodes whose actors table has an entry for the id
Holders(id) == {n \in Nodes : actorsTbl[n][id] # NoNode}

\* C10: directory uniqueness. At most one node's actors table contains an
\* entry for an actor id.
C10_DirectoryUnique ==
    \A id \in ActorIds : Cardinality(Holders(id)) <= 1

(***************************************************************************)
(* Properties of the end of the main loop.                                 *)
(***************************************************************************)
\* the actor's run is inside its while-let loop
InLoop(p) == p \in {"recv", "handling"}

\* C20: the main loop is left only by a handler that returned with the status
\* at Stopping, or at recv with the channel empty and closed; a handler that
\* returns with any other status is followed by the next recv.
C20_LoopEndsOnlyOnStoppingOrClosed ==
    [][\A a \in Actors :
          (InLoop(pc[a]) /\ ~InLoop(pc'[a])) =>
              \/ pc[a] = "handling" /\ StatusAfterHandler(a) = "Stopping"
              \/ pc[a] = "recv" /\ refsDropped /\ mailbox[a] = <<>>]_vars

\* a Stop envelope is being handled after an earlier handler left the status
\* at Stopped: the actor was not stopped by it
C20_Witness ==
    /\ pc[Root] = "handling"
    /\ cur[Root].kind = "stop"
    /\ status[Root] = "Stopped"
    /\ Len(handled[Root]) >= 2

(***************************************************************************)
(* Properties of the stop sequence of the loop.                            *)
(***************************************************************************)
\* C21: every on-stopped subscriber of an actor that reached Stopped and
\* whose run has ended was signalled: its receiver holds the unit value,
\* not a closed channel.
C21_SubscribersSignalled ==
    \A s \in Subs :
        (/\ subOwner[s] # NoRef
         /\ status[subOwner[s]] = "Stopped"
         /\ pc[subOwner[s]] = "done") => subState[s] = "signalled"

\* the loop of run is over: the stop sequence has begun or run has ended
PastLoop(p) == p \in {"stopped_hook", "deregistering", "done"}

\* C22: cooperative stop. A handler that returns with the status at Stopping
\* is followed by status Stopping and the stopped hook, not by another recv;
\* from then on no envelope is dequeued, queued ones included, and the
\* return of the stopped hook sets Stopped.
C22_CooperativeStop ==
    [][\A a \in Actors :
          /\ (pc[a] = "handling" /\ pc'[a] # "handling"
                  /\ StatusAfterHandler(a) = "Stopping") =>
                 (pc'[a] = "stopped_hook" /\ status'[a] = "Stopping")
          /\ PastLoop(pc[a]) => (PastLoop(pc'[a]) /\ handled'[a] = handled[a])
          /\ (pc[a] = "stopped_hook" /\ pc'[a] # "stopped_hook") =>
                 status'[a] = "Stopped"]_vars

\* the Stop handler has returned and the stopped hook runs while an envelope
\* is still queued
C22_Witness ==
    /\ pc[Root] = "stopped_hook"
    /\ HandledStop(Root)
    /\ mailbox[Root] # <<>>

\* C23: the start oneshot is signalled with success at most once, by the
\* step in which the started hook has returned and the status becomes
\* Started, before any envelope is dequeued; when the started hook leaves
\* the status at Stopping, run ends with the oneshot dropped and no envelope
\* handled.
C23_StartSignal ==
    [][\A a \in Actors :
          /\ (onStart'[a] = "true" /\ onStart[a] # "true") =>
                 /\ onStart[a] = "pending"
                 /\ pc[a] = "started_hook" /\ pc'[a] = "recv"
                 /\ status[a] # "Stopping" /\ status'[a] = "Started"
                 /\ handled'[a] = <<>>
          /\ onStart[a] = "true" => onStart'[a] = "true"
          /\ handled'[a] # <<>> => onStart'[a] = "true"
          /\ (pc[a] = "started_hook" /\ status[a] = "Stopping"
                  /\ pc'[a] # "started_hook") =>
                 (onStart'[a] = "dropped" /\ pc'[a] = "done")
          /\ onStart[a] = "dropped" =>
                 (onStart'[a] = "dropped" /\ handled'[a] = <<>>)]_vars

\* the started hook left Stopping with an envelope queued: run has ended,
\* the oneshot was dropped and nothing was handled
C23_Witness ==
    /\ onStart[Root] = "dropped"
    /\ status[Root] = "Stopping"
    /\ pc[Root] = "done"
    /\ \E t \in Senders : sent[t] > 0

\* C24: deregistration. A tracked actor sends DeregisterActor only after its
\* stopped hook returned with its status Stopped, and at most once; an
\* untracked actor sends none; a tracked actor whose run has ended, on
\* whichever path, has sent exactly one.
C24_Deregistration ==
    \A a \in Actors :
        /\ deregs[a] <= 1
        /\ deregs[a] = 1 =>
              (Tracked(a) /\ stoppedCalls[a] = 1 /\ status[a] = "Stopped")
        /\ (Tracked(a) /\ pc[a] = "done") => deregs[a] = 1

(***************************************************************************)
(* Properties of send.                                                     *)
(***************************************************************************)
\* C13: a send issued after send(Stop) has returned never succeeds and never
\* fails with an error other than ActorUnavailable.
C13_SendAfterStopUnavailable ==
    CallReturned(lateCall) => CallError(lateCall) = "ActorUnavailable"

\* send(Stop) was answered, the later send was enqueued while run was still
\* shutting down, and its envelope was dropped with the channel
C13_Witness ==
    stopCall = "returned" /\ lateCall = "dropped"

(***************************************************************************)
(* Properties of the registry's membership table and lookups.              *)
(***************************************************************************)
\* C26: RegisterActor routing. Handling RegisterActor with a node id inserts
\* (actor_id -> node_id) locally; without one it inserts (actor_id -> local
\* node) locally when the id's directory node is the local node or no nodes
\* are configured, and otherwise sends one RegisterActor session event with
\* the local node id to the directory node and leaves the local table as it
\* was. No other registry's table changes.
C26_RegisterActorRouting ==
    [][\A n \in Nodes :
          (regQueue[n] # <<>> /\ regQueue'[n] = Tail(regQueue[n])) =>
              LET msg == Head(regQueue[n])
                  dir == GetByKey(msg.actor_id, view[n])
                  sends == eventsSent'[n] - eventsSent[n]
              IN  /\ \A m \in Nodes \ {n} : actorsTbl'[m] = actorsTbl[m]
                  /\ msg.node_id # NoNode =>
                         /\ actorsTbl'[n] = [actorsTbl[n] EXCEPT ![msg.actor_id] = msg.node_id]
                         /\ sends = 0 /\ net' = net
                  /\ (msg.node_id = NoNode /\ dir \in {NoNode, n}) =>
                         /\ actorsTbl'[n] = [actorsTbl[n] EXCEPT ![msg.actor_id] = n]
                         /\ sends = 0 /\ net' = net
                  /\ (msg.node_id = NoNode /\ dir \notin {NoNode, n}) =>
                         /\ actorsTbl'[n] = actorsTbl[n]
                         /\ sends = 1
                         /\ net' = net \cup {[to |-> dir, actor_id |-> msg.actor_id,
                                               node_id |-> n]}]_vars

\* a registry has sent a RegisterActor event to a directory node, and a
\* registry holds an entry it inserted for another node
C26_Witness ==
    /\ \E n \in Nodes : eventsSent[n] > 0
    /\ \E n \in Nodes, id \in ActorIds :
          actorsTbl[n][id] # NoNode /\ actorsTbl[n][id] # n

\* C27: GetActorNode routing. With a local entry for the id, or the local
\* node as the id's directory node, the handler answers from the local table
\* and sends no FindActor; otherwise the lookup task registers its sink in
\* the request table before it sends one FindActor to the directory node,
\* and answers a response with node id 0 as None and any other as
\* Some(node id).
C27_GetActorNodeRouting ==
    [][/\ (lookupPc = "idle" /\ lookupPc' # "idle") =>
              LET n == lookupAt'
                  id == lookupId'
                  dir == GetByKey(id, view[n])
              IN  IF actorsTbl[n][id] # NoNode \/ dir \in {NoNode, n}
                  THEN /\ lookupPc' = "done" /\ lookupAnswer' = "sent"
                       /\ lookupNode' = (IF actorsTbl[n][id] = NoNode THEN None
                                         ELSE Some(actorsTbl[n][id]))
                       /\ findSent' = 0 /\ ~lookupPushed'
                  ELSE /\ lookupPc' = "spawned" /\ lookupAnswer' = "pending"
                       /\ lookupTarget' = dir
                       /\ findSent' = 0 /\ ~lookupPushed'
       /\ findSent' > findSent =>
              (findSent = 0 /\ findSent' = 1 /\ lookupPushed /\ lookupTarget \in Nodes)
       /\ (lookupPc = "waiting" /\ lookupReply' = "ok") =>
              /\ lookupAnswer' = "sent"
              /\ lookupNode' = (IF lookupResp' = 0 THEN None ELSE Some(lookupResp'))
       /\ lookupPc' = "done" => (findSent' = 0 \/ lookupReply' = "ok")]_vars

\* a lookup routed to the directory node was answered with node id 0: one
\* FindActor was sent and the caller got None
C27_Witness ==
    /\ lookupPc = "done"
    /\ lookupReply = "ok"
    /\ lookupResp = 0
    /\ findSent = 1
    /\ lookupNode = None

\* C16: a node of RegisterNodes whose client creation or handshake failed is
\* not in the membership table afterwards and no NodeAdded event was
\* published for it.
C16_FailedHandshakeNotAdded ==
    lastRegister.node # NoNode =>
        \A m \in lastRegister.failed :
            /\ m \notin view[lastRegister.node]
            /\ m \in pendingEvents[lastRegister.node] => m \in lastRegister.pendingBefore

\* C17: a remote GetActorNode lookup that gets an error response, or none,
\* reports the failure to the caller as a value: the lookup task does not
\* panic and the caller's sink is not dropped unanswered.
C17_LookupFailureIsValue ==
    lookupReply \in {"err", "dropped"} =>
        /\ lookupPc # "panicked"
        /\ lookupAnswer # "dropped"

(***************************************************************************)
(* Properties of the remote server.                                        *)
(***************************************************************************)
\* C19: once the token is cancelled server_loop eventually exits; it exits
\* only when the token is cancelled; the exit stops no session, and after
\* the exit no connection is accepted and no session is created.
C19_ServerShutdown ==
    /\ [][(loopPc # "exited" /\ loopPc' = "exited") =>
              (token /\ sessions' = sessions)]_vars
    /\ [][loopPc = "exited" =>
              /\ loopPc' = "exited"
              /\ backlog' = backlog \/ Len(backlog') > Len(backlog)
              /\ \A c \in Conns : sessions'[c] = "running" => sessions[c] = "running"]_vars
    /\ (token ~> loopPc = "exited")

\* the loop has exited after an accept error and a failed NewSession, with a
\* session still running and a connection that arrived and was not accepted
C19_Witness ==
    /\ loopPc = "exited"
    /\ acceptErrors > 0
    /\ \E c \in Conns : sessions[c] = "running"
    /\ \E c \in Conns : c < nextConn /\ sessions[c] = "none"
    /\ backlog # <<>>

(***************************************************************************)
(* Properties of registration with the scheduler.                          *)
(***************************************************************************)
\* C14: new_tracked_actor returns a ref only when the start oneshot delivered
\* true; when it delivered false or was dropped the caller gets
\* ActorUnavailable.
C14_RefOnlyWhenAcknowledged ==
    \A k \in Tasks :
        /\ regResult[k] = "ok_ref" => ack[k] = "true" /\ sendRes[k] = "ok"
        /\ (regResult[k] # "none" /\ ack[k] \in {"false", "dropped"}) =>
               regResult[k] = "unavailable"

\* the scheduler answered with a ref, the oneshot delivered false, and the
\* caller got ActorUnavailable
C14_Witness ==
    \E k \in Tasks :
        sendRes[k] = "ok" /\ ack[k] = "false" /\ regResult[k] = "unavailable"

InQueue(q, n) == \E i \in 1..Len(q) : q[i] = n

\* C11: shard ordering. The requests of the one sender reach the shard actor
\* in the order of their submission.
C11_ShardOrder ==
    \A i, j \in 1..Len(shardInbox) : i < j => shardInbox[i] < shardInbox[j]

\* the request reached the shard actor, or was notified to the remote shard
Delivered(n) == InQueue(shardInbox, n) \/ InQueue(remoteSent, n)

\* C12: request preservation. A request queued for the allocation of its
\* shard is eventually delivered or answered with ActorUnavailable.
C12_PendingEventuallyServed ==
    \A n \in Reqs :
        InQueue(pendingShard, n) ~> (Delivered(n) \/ n \in unavailable)

\* the host takes an EntityRequest from its mailbox in this step
HandlesRequest ==
    /\ hostMailbox # <<>>
    /\ Head(hostMailbox).kind = "req"
    /\ hostMailbox' = Tail(hostMailbox)

\* C29: an EntityRequest for a hosted shard in state Starting is appended to
\* the end of the shard's request_buffer: the earlier entries keep their
\* positions, the state stays Starting, and nothing is forwarded to a shard
\* actor or queued elsewhere.
C29_StartingBuffers ==
    [][(HandlesRequest /\ hosted = "starting") =>
          /\ Len(requestBuffer') = Len(requestBuffer) + 1
          /\ requestBuffer'[Len(requestBuffer')] = Head(hostMailbox).n
          /\ \A i \in 1..Len(requestBuffer) : requestBuffer'[i] = requestBuffer[i]
          /\ hosted' = "starting"
          /\ sendTasks' = sendTasks /\ shardInbox' = shardInbox
          /\ remoteTasks' = remoteTasks /\ remoteSent' = remoteSent
          /\ pendingShard' = pendingShard /\ pendingLeader' = pendingLeader
          /\ allocTasks' = allocTasks]_vars

\* a request was pushed behind an earlier entry of the buffer of the
\* Starting shard
C29_Witness ==
    /\ hosted = "starting"
    /\ Len(requestBuffer) >= 2
    /\ requestBuffer[Len(requestBuffer)] \in bufferedStarting

\* C30: an EntityRequest whose shard is neither hosted nor remote, with a
\* leader known, is appended to the requests pending the shard's allocation
\* in the handler, before the task the handler spawns sends AllocateShard;
\* the handler ends without the reply, so the host takes its next message
\* while AllocateShard is outstanding; a reply Allocated(shard, node)
\* notifies ShardAllocated(shard, node) to the host.
C30_AllocateShardOrder ==
    /\ [][(HandlesRequest /\ hosted = "absent" /\ ~remoteShard /\ leader) =>
              /\ pendingShard' = Append(pendingShard, Head(hostMailbox).n)
              /\ allocTasks' = allocTasks + 1
              /\ allocSent' = allocSent /\ allocPending' = allocPending]_vars
    /\ [][allocSent' # allocSent =>
              (allocTasks > 0 /\ allocSent' = allocSent + 1
                  /\ pendingShard' = pendingShard)]_vars
    /\ [][(allocPending' < allocPending /\ lastReply' \in {"local", "remote"}) =>
              hostMailbox' = Append(hostMailbox,
                  [kind |-> "allocated", n |-> 0, node |-> lastReply'])]_vars
    /\ []((hostMailbox # <<>> /\ Head(hostMailbox).kind = "req") =>
              ENABLED HandleEntityRequest)

\* AllocateShard is outstanding at the coordinator while a request is queued
\* for the allocation, and an earlier reply Allocated has put a
\* ShardAllocated notice into the host's mailbox
C30_Witness ==
    /\ allocPending > 0
    /\ Len(pendingShard) >= 1
    /\ lastReply \in {"local", "remote"}
    /\ \E i \in 1..Len(hostMailbox) : hostMailbox[i].kind = "allocated"

\* C31: every EntityRequest the host handles goes to exactly one place: the
\* hosted shard (its buffer while Starting, a send to the shard actor when
\* Ready) if the shard is hosted, else the remote shard if it is known
\* remote, else the requests pending the shard's allocation if a leader is
\* known, else the back of the requests pending a leader; with no leader
\* known, nothing is sent to a coordinator and the caller gets no error.
C31_RequestPrecedence ==
    [][HandlesRequest =>
          LET n == Head(hostMailbox).n
              toBuffer == requestBuffer' = Append(requestBuffer, n)
              toActor == n \notin sendTasks /\ sendTasks' = sendTasks \cup {n}
              toRemote == remoteTasks[n] = "none"
                              /\ remoteTasks' = [remoteTasks EXCEPT ![n] = "spawned"]
              toShardQueue == pendingShard' = Append(pendingShard, n)
              toLeaderQueue == pendingLeader' = Append(pendingLeader, n)
              keptBuffer == requestBuffer' = requestBuffer
              keptActor == sendTasks' = sendTasks
              keptRemote == remoteTasks' = remoteTasks
              keptShardQueue == pendingShard' = pendingShard /\ allocTasks' = allocTasks
              keptLeaderQueue == pendingLeader' = pendingLeader
          IN  /\ hosted = "starting" =>
                     (toBuffer /\ keptActor /\ keptRemote /\ keptShardQueue
                         /\ keptLeaderQueue)
              /\ hosted = "ready" =>
                     (toActor /\ keptBuffer /\ keptRemote /\ keptShardQueue
                         /\ keptLeaderQueue)
              /\ (hosted = "absent" /\ remoteShard) =>
                     (toRemote /\ keptBuffer /\ keptActor /\ keptShardQueue
                         /\ keptLeaderQueue)
              /\ (hosted = "absent" /\ ~remoteShard /\ leader) =>
                     (toShardQueue /\ keptBuffer /\ keptActor /\ keptRemote
                         /\ keptLeaderQueue)
              /\ (hosted = "absent" /\ ~remoteShard /\ ~leader) =>
                     (toLeaderQueue /\ keptBuffer /\ keptActor /\ keptRemote
                         /\ keptShardQueue /\ allocSent' = allocSent
                         /\ allocPending' = allocPending
                         /\ unavailable' = unavailable)
              /\ shardInbox' = shardInbox /\ remoteSent' = remoteSent]_vars

\* with a leader known, a request for the hosted shard went to the shard's
\* buffer, not to the requests pending its allocation
C31_Witness ==
    /\ leader
    /\ hosted = "starting"
    /\ bufferedStarting # {}
    /\ allocSent > 0

\* C32: the task of a request for a remote shard registers its reply sink in
\* the request table before it sends the RemoteEntityRequest, once; the
\* reply that arrives is forwarded to the caller's sink once, an error reply
\* as ActorUnavailable, and the task ends with it.
C32_RemoteEntityRequest ==
    [][\A n \in Reqs :
          /\ (InQueue(remoteSent', n) /\ ~InQueue(remoteSent, n)) =>
                 (remoteTasks[n] = "pushed" /\ remoteSent' = Append(remoteSent, n))
          /\ (remoteTasks[n] = "waiting" /\ remoteTasks'[n] = "done_ok") =>
                 (n \notin replied \cup unavailable
                     /\ replied' = replied \cup {n} /\ unavailable' = unavailable)
          /\ (remoteTasks[n] = "waiting" /\ remoteTasks'[n] = "done_err") =>
                 (n \notin replied \cup unavailable
                     /\ unavailable' = unavailable \cup {n} /\ replied' = replied)
          /\ remoteTasks[n] \in {"done_ok", "done_err", "done_closed"} =>
                 (remoteTasks'[n] = remoteTasks[n]
                     /\ (n \in replied' <=> n \in replied)
                     /\ (n \in unavailable' <=> n \in unavailable))
          /\ (n \in replied' \cup unavailable' /\ n \notin replied \cup unavailable) =>
                 remoteTasks[n] = "waiting"]_vars
    /\ [](\A n \in Reqs :
            Cardinality({i \in 1..Len(remoteSent) : remoteSent[i] = n}) <= 1)

\* one request for the remote shard was answered and forwarded, another
\* got an error reply that was forwarded as ActorUnavailable
C32_Witness ==
    /\ \E n \in Reqs : remoteTasks[n] = "done_ok" /\ n \in replied
    /\ \E n \in Reqs : remoteTasks[n] = "done_err" /\ n \in unavailable

(***************************************************************************)
(* The client table of RemoteClientRegistry.  RegisterClient, ClientWrite  *)
(* and DeregisterClient arrive in one mailbox and are handled one at a     *)
(* time; the ClientWrite handler awaits client.send(Write(bytes)), which   *)
(* returns when the client actor has handled the Write.                    *)
(***************************************************************************)
ClientWriteMsg(c, f) == [kind |-> "write", node |-> c, frame |-> f]

RegisterClientMsg(c) == [kind |-> "register", node |-> c, frame |-> 0]

DeregisterClientMsg(c) == [kind |-> "deregister", node |-> c, frame |-> 0]

\* a sender notifies the registry of ClientWrite(node_id, bytes)
SubmitClientWrite(c) ==
    /\ writesSubmitted < MaxWrites
    /\ writesSubmitted' = writesSubmitted + 1
    /\ crMailbox' = Append(crMailbox, ClientWriteMsg(c, writesSubmitted + 1))
    /\ UNCHANGED <<clients, crPc, clientInbox, written, droppedWrites,
                   clientOps>>
    /\ UNCHANGED notWriteVars

\* a connecting client is announced with RegisterClient(node_id, client)
SubmitRegisterClient(c) ==
    /\ clientOps < MaxClientOps
    /\ clientOps' = clientOps + 1
    /\ crMailbox' = Append(crMailbox, RegisterClientMsg(c))
    /\ UNCHANGED <<clients, crPc, clientInbox, written, droppedWrites,
                   writesSubmitted>>
    /\ UNCHANGED notWriteVars

\* a closed client is withdrawn with DeregisterClient(node_id)
SubmitDeregisterClient(c) ==
    /\ clientOps < MaxClientOps
    /\ clientOps' = clientOps + 1
    /\ crMailbox' = Append(crMailbox, DeregisterClientMsg(c))
    /\ UNCHANGED <<clients, crPc, clientInbox, written, droppedWrites,
                   writesSubmitted>>
    /\ UNCHANGED notWriteVars

\* a departure from the code: the next message is taken while the Write is
\* still awaited
RegistryMayTakeAlways(p) == TRUE

\* the actor loop hands the registry its next message only when the handler
\* of the previous one has returned, that is after the awaited send
RegistryMayTake(p) == p = "idle"

\* client.send(Write(message)): the frame goes to the back of the client's
\* mailbox
InboxAfterWrite(inbox, f) == Append(inbox, f)

\* Handler<RegisterClient>: add_client(node_id, client)
HandleRegisterClient ==
    /\ RegistryMayTake(crPc)
    /\ crMailbox # <<>>
    /\ Head(crMailbox).kind = "register"
    /\ crMailbox' = Tail(crMailbox)
    /\ clients' = clients \cup {Head(crMailbox).node}
    /\ UNCHANGED <<crPc, clientInbox, written, droppedWrites, writesSubmitted,
                   clientOps>>
    /\ UNCHANGED notWriteVars

\* Handler<DeregisterClient>: remove_client(node_id)
HandleDeregisterClient ==
    /\ RegistryMayTake(crPc)
    /\ crMailbox # <<>>
    /\ Head(crMailbox).kind = "deregister"
    /\ crMailbox' = Tail(crMailbox)
    /\ clients' = clients \ {Head(crMailbox).node}
    /\ UNCHANGED <<crPc, clientInbox, written, droppedWrites, writesSubmitted,
                   clientOps>>
    /\ UNCHANGED notWriteVars

\* Handler<ClientWrite>: with a client in the table the frame is sent to it
\* as Write and the handler awaits the result; with none it is traced as
\* not found and the handler returns
HandleClientWrite ==
    /\ RegistryMayTake(crPc)
    /\ crMailbox # <<>>
    /\ Head(crMailbox).kind = "write"
    /\ crMailbox' = Tail(crMailbox)
    /\ LET c == Head(crMailbox).node
           f == Head(crMailbox).frame
       IN  IF c \in clients
           THEN /\ clientInbox' =
                      [clientInbox EXCEPT ![c] = InboxAfterWrite(@, f)]
                /\ crPc' = "awaiting"
                /\ UNCHANGED droppedWrites
           ELSE /\ droppedWrites' = droppedWrites \cup {f}
                /\ UNCHANGED <<clientInbox, crPc>>
    /\ UNCHANGED <<clients, written, writesSubmitted, clientOps>>
    /\ UNCHANGED notWriteVars

\* the client actor handles the Write at the head of its mailbox; its
\* result ends the await of the registry's handler
ClientHandlesWrite(c) ==
    /\ clientInbox[c] # <<>>
    /\ written' = [written EXCEPT ![c] = Append(@, Head(clientInbox[c]))]
    /\ clientInbox' = [clientInbox EXCEPT ![c] = Tail(@)]
    /\ crPc' = "idle"
    /\ UNCHANGED <<crMailbox, clients, droppedWrites, writesSubmitted,
                   clientOps>>
    /\ UNCHANGED notWriteVars

NextWrites ==
    \/ \E c \in ClientNodes : SubmitClientWrite(c)
    \/ \E c \in ClientNodes : SubmitRegisterClient(c)
    \/ \E c \in ClientNodes : SubmitDeregisterClient(c)
    \/ HandleRegisterClient
    \/ HandleDeregisterClient
    \/ HandleClientWrite
    \/ \E c \in ClientNodes : ClientHandlesWrite(c)

SpecWrites == Init /\ [][NextWrites]_vars

\* the frames of a sequence are in the order their ClientWrite was received
InReceivedOrder(q) ==
    \A i \in 1..Len(q) : \A j \in 1..Len(q) : i < j => q[i] < q[j]

\* this step takes a ClientWrite from the registry's mailbox
TakesClientWrite ==
    /\ crMailbox # <<>>
    /\ Head(crMailbox).kind = "write"
    /\ crMailbox' = Tail(crMailbox)

\* C33: per node, the frames handed to the client's Write are in the order
\* the registry received their ClientWrite messages and each is handed once;
\* the registry takes no message while a Write it sent is not yet handled;
\* a ClientWrite for a node with a client hands exactly its frame to that
\* client as the latest one, and a ClientWrite for a node with no client is
\* dropped, leaving the clients table and every client's frames unchanged.
C33_ClientWriteOrder ==
    /\ [](\A c \in ClientNodes : InReceivedOrder(written[c] \o clientInbox[c]))
    /\ [][/\ crMailbox # <<>> /\ crMailbox' = Tail(crMailbox)
              => \A c \in ClientNodes : clientInbox[c] = <<>>
          /\ TakesClientWrite /\ Head(crMailbox).node \in clients
              => /\ clientInbox' =
                       [clientInbox EXCEPT ![Head(crMailbox).node] =
                            Append(@, Head(crMailbox).frame)]
                 /\ clients' = clients
                 /\ droppedWrites' = droppedWrites
          /\ TakesClientWrite /\ Head(crMailbox).node \notin clients
              => /\ clients' = clients
                 /\ clientInbox' = clientInbox
                 /\ written' = written
                 /\ droppedWrites' =
                       droppedWrites \cup {Head(crMailbox).frame}]_vars

\* a client has handled two frames and a ClientWrite found no client
C33_Witness ==
    /\ \E c \in ClientNodes : Len(written[c]) >= 2
    /\ droppedWrites # {}

====
